---- MODULE Spec2Model ----
(***************************************************************************)
(* Client-side order state machine of the trader app                       *)
(* (mobile/native/src/trade/order/handler.rs).                             *)
(*                                                                         *)
(* The handlers are written as operators over a context record             *)
(*   c = [orders, position, posted, log]                                   *)
(* holding the Store's order table, the trader's position state, the set   *)
(* of order ids handed to post_new_order and the log of the external calls *)
(* (Store, position handler, orderbook client, event bus) made by the      *)
(* running handler.  Every external call returns a Result in the source;   *)
(* its outcome is an input of the handler (record `in`).                   *)
(***************************************************************************)
EXTENDS Integers, Sequences, FiniteSets, TLC

\* ---------------------------------------------------------------- bounds
\* number of order ids (uuids) in play
MaxOrders == 2
\* execution prices are 0..MaxPrice
MaxPrice == 1

\* handler.rs:22  const ORDER_OUTDATED_AFTER: Duration = Duration::minutes(5)
ORDER_OUTDATED_AFTER == 5

OrderIds == 1..MaxOrders
Prices == 0..MaxPrice
\* Time in minutes.  Orders are created at CreationTimes; the clock is read at
\* Instants: the creation times and the first minute at which an order created
\* at time 0 is outdated, which is the last minute at which one created at
\* time 1 is not.  Times are the values of `now` a sweep is examined at.
CreationTimes == {0, 1}
Instants == CreationTimes \cup {ORDER_OUTDATED_AFTER + 1}
Times == 0..(ORDER_OUTDATED_AFTER + 2)

\* FailureReason variants (db/custom_types.rs:142-175) used by the handlers,
\* and the one an outside caller of order_failed passes.
FailureReason == {"TradeRequest", "FailedToSetToFilling", "OrderNotAcceptable", "TimedOut"}
CallerReasons == {"TradeRequest"}

\* PositionState variants (db/custom_types.rs:177-200)
PositionState == {"Open", "Closing", "Rollover"}

\* ------------------------------------------------------------ OrderState
Initial == [tag |-> "Initial"]
Rejected == [tag |-> "Rejected"]
Open == [tag |-> "Open"]
Filling(execution_price) == [tag |-> "Filling", execution_price |-> execution_price]
Filled(execution_price) == [tag |-> "Filled", execution_price |-> execution_price]
Failed(reason) == [tag |-> "Failed", reason |-> reason]
NoState == [tag |-> "none"]

IsTerminal(state) == state.tag \in {"Filled", "Failed", "Rejected"}

\* Option<T>
None == <<>>
Some(x) == <<x>>

\* Result<T>
Ok(val) == [tag |-> "Ok", val |-> val]
Err(msg) == [tag |-> "Err", val |-> msg]
Unit == "()"

VARIABLES
    orders,     \* Store: order id -> [id, state, creation_timestamp]
    position,   \* state of the trader's position
    posted,     \* order ids post_new_order was called with
    clock,      \* OffsetDateTime::now_utc(), in minutes
    sweep,      \* the check_open_orders call in progress, if any
    \* coordinator (orderbook/async_match.rs, orderbook/db/orders.rs)
    coordinator_orders,  \* orders table: trader -> [id, trader_id, order_type, expiry,
                         \*                         order_state, order_reason]
    matches,             \* matches table: order id -> rows of that order
    user_feed,           \* broadcast of NewUserMessage not yet received by monitor
    tasks,               \* spawned notification tasks (by trader) that have not run yet
    notifier,            \* outbound channel of OrderbookMessage
    monitor,             \* the monitor future: "running", or how it ended
    \* Lightning node (ln-dlc-node/src/node/invoice.rs)
    fake_channel_payments,  \* intercept scid -> LiquidityRequest
    map_lock,               \* holder of the mutex around fake_channel_payments, if any
    channels,               \* Store: user channel id -> shadow channel
    payments,               \* Store: payment hash -> PaymentInfo
    onboarding,             \* prepare_onboarding_payment calls in progress
    waiter,                 \* the wait_for_payment call, if any
    \* client database (mobile/native/src/db/custom_types.rs)
    customstruct,           \* table: id -> row of text columns
    loaded,                 \* result of the last load of a row, if any
    \* channel configuration of the node (ln-dlc-node/src/node/invoice.rs)
    ldk_config_rw,          \* self.ldk_config, the RwLock: [value, readers]
    hop_build,              \* function -> its call building a hop, step by step
    issued,                 \* fees of the hops returned so far
    \* channels of the node (ln-dlc-node/src/node/invoice.rs)
    list_channels,          \* channel_manager.list_channels()
    route_hint              \* last prepare_payment_with_route_hint call, if any

clientVars == <<orders, position, posted, clock, sweep>>
coordinatorVars == <<coordinator_orders, matches, user_feed, tasks, notifier, monitor>>
nodeVars == <<fake_channel_payments, map_lock, channels, payments, onboarding, waiter>>
dbVars == <<customstruct, loaded>>
hintVars == <<list_channels, route_hint>>
feeVars == <<ldk_config_rw, hop_build, issued, hintVars>>
vars == <<clientVars, coordinatorVars, nodeVars, dbVars, feeVars>>

\* ------------------------------------------------- external collaborators
Call(fn, id, state, ok) == [fn |-> fn, id |-> id, state |-> state, ok |-> ok]
Logged(c, e) == [c EXCEPT !.log = Append(@, e)]

\* db::update_order_state(id, state) -> Result<Order>: one atomic write; fails
\* when the Store fails or holds no such order.
update_order_state(c, id, state, ok) ==
    LET good == ok /\ id \in DOMAIN c.orders
        c1 == IF good THEN [c EXCEPT !.orders[id].state = state] ELSE c
    IN  [ok |-> good,
         order |-> IF good THEN c1.orders[id] ELSE NoState,
         c |-> Logged(c1, Call("update_order_state", id, state, good))]

\* db::insert_order(order) -> Result<()>
insert_order(c, order, ok) ==
    LET good == ok /\ order.id \notin DOMAIN c.orders
        c1 == IF good THEN [c EXCEPT !.orders = (order.id :> order) @@ @] ELSE c
    IN  [ok |-> good, c |-> Logged(c1, Call("insert_order", order.id, order.state, good))]

\* db::maybe_get_order_in_filling() -> Result<Option<Order>>
OrdersInState(db, tags) == {id \in DOMAIN db : db[id].state.tag \in tags}

maybe_get_order_in_filling(c, pick, ok) ==
    LET filling == OrdersInState(c.orders, {"Filling"})
        found == IF filling = {} THEN None
                 ELSE IF pick \in filling THEN Some(c.orders[pick])
                 ELSE Some(c.orders[CHOOSE id \in filling : TRUE])
    IN  [ok |-> ok, found |-> IF ok THEN found ELSE None,
         c |-> Logged(c, Call("maybe_get_order_in_filling", 0, NoState, ok))]

\* ascending list of the elements of a set of order ids
RECURSIVE SortedSeq(_)
SortedSeq(S) ==
    IF S = {} THEN <<>>
    ELSE LET m == CHOOSE x \in S : \A y \in S : x <= y
         IN  <<m>> \o SortedSeq(S \ {m})

\* db::maybe_get_open_orders() -> Result<Vec<Order>>: the orders that are not
\* yet in a terminal state
maybe_get_open_orders(c, ok) ==
    LET open == SortedSeq(OrdersInState(c.orders, {"Initial", "Open", "Filling"}))
    IN  [ok |-> ok,
         found |-> IF ok THEN [i \in 1..Len(open) |-> c.orders[open[i]]] ELSE <<>>,
         c |-> Logged(c, Call("maybe_get_open_orders", 0, NoState, ok))]

\* position::handler::get_position_matching_order(&order) -> Result<..>: Err when
\* the order would extend or reduce the current position
get_position_matching_order(c, order, acceptable) ==
    [ok |-> acceptable,
     c |-> Logged(c, Call("get_position_matching_order", order.id, NoState, acceptable))]

\* position::handler::set_position_state(state) -> Result<()>
set_position_state(c, state, ok) ==
    [ok |-> ok,
     c |-> Logged(IF ok THEN [c EXCEPT !.position = state] ELSE c,
                  Call("set_position_state", 0, [tag |-> state], ok))]

\* position::handler::update_position_after_order_submitted(&order): the
\* position is reserved for the submitted order
update_position_after_order_submitted(c, order, ok) ==
    [ok |-> ok,
     c |-> Logged(IF ok THEN [c EXCEPT !.position = "Closing"] ELSE c,
                  Call("update_position_after_order_submitted", order.id, NoState, ok))]

\* OrderbookClient::post_new_order(order) -> Result<()>
post_new_order(c, order, ok) ==
    [ok |-> ok,
     c |-> Logged([c EXCEPT !.posted = @ \cup {order.id}],
                  Call("post_new_order", order.id, NoState, ok))]

\* event::publish(&EventInternal::OrderUpdateNotification(order))
ui_update(c, order) == Logged(c, Call("publish", order.id, order.state, TRUE))

\* ------------------------------------------------------------- handlers
\* the notification published ahead of the Store write
update_order_state_in_db_and_ui_PublishFirst(c, order_id, state, ok) ==
    LET n == ui_update(c, [id |-> order_id, state |-> state])
        u == update_order_state(n, order_id, state, ok)
    IN  IF ~u.ok THEN [ok |-> FALSE, order |-> NoState, c |-> u.c]
        ELSE [ok |-> TRUE, order |-> u.order, c |-> u.c]

update_order_state_in_db_and_ui(c, order_id, state, ok) ==
    LET u == update_order_state(c, order_id, state, ok)
    IN  IF ~u.ok THEN [ok |-> FALSE, order |-> NoState, c |-> u.c]
        ELSE [ok |-> TRUE, order |-> u.order, c |-> ui_update(u.c, u.order)]

\* get_order_being_filled falling back to an open order when none is in Filling
get_order_being_filled_FallsBack(c, in) ==
    LET r == maybe_get_order_in_filling(c, in.pick, in.readOk)
        open == OrdersInState(c.orders, {"Initial", "Open"})
    IN  IF r.ok /\ r.found # None THEN [ok |-> TRUE, order |-> r.found[1], c |-> r.c]
        ELSE IF r.ok /\ open # {}
        THEN [ok |-> TRUE, order |-> c.orders[CHOOSE id \in open : TRUE], c |-> r.c]
        ELSE [ok |-> FALSE, order |-> NoState, c |-> r.c]

get_order_being_filled(c, in) ==
    LET r == maybe_get_order_in_filling(c, in.pick, in.readOk)
    IN  IF r.ok /\ r.found # None THEN [ok |-> TRUE, order |-> r.found[1], c |-> r.c]
        ELSE [ok |-> FALSE, order |-> NoState, c |-> r.c]

\* order_failed without its compensating position reset
order_failed_NoReset(c, order_id, reason, in) ==
    LET got == IF order_id = None THEN get_order_being_filled(c, in)
               ELSE [ok |-> TRUE, order |-> [id |-> order_id[1]], c |-> c]
    IN  IF ~got.ok THEN [c |-> got.c, ret |-> Err("no order in filling")]
        ELSE
        LET u == update_order_state_in_db_and_ui(got.c, got.order.id, Failed(reason), in.w)
        IN  IF ~u.ok THEN [c |-> u.c, ret |-> Err("Failed to update order")]
            ELSE [c |-> u.c, ret |-> Ok(Unit)]

\* order_failed resetting the position before it has written the order state
order_failed_ResetFirst(c, order_id, reason, in) ==
    LET p == set_position_state(c, "Open", in.pos)
        got == IF order_id = None THEN get_order_being_filled(p.c, in)
               ELSE [ok |-> TRUE, order |-> [id |-> order_id[1]], c |-> p.c]
    IN  IF ~p.ok THEN [c |-> p.c, ret |-> Err("Could not reset position to open")]
        ELSE IF ~got.ok THEN [c |-> got.c, ret |-> Err("no order in filling")]
        ELSE
        LET u == update_order_state_in_db_and_ui(got.c, got.order.id, Failed(reason), in.w)
        IN  IF ~u.ok THEN [c |-> u.c, ret |-> Err("Failed to update order")]
            ELSE [c |-> u.c, ret |-> Ok(Unit)]

order_failed(c, order_id, reason, in) ==
    LET got == IF order_id = None THEN get_order_being_filled(c, in)
               ELSE [ok |-> TRUE, order |-> [id |-> order_id[1]], c |-> c]
    IN  IF ~got.ok THEN [c |-> got.c, ret |-> Err("no order in filling")]
        ELSE
        LET u == update_order_state_in_db_and_ui(got.c, got.order.id, Failed(reason), in.w)
        IN  IF ~u.ok THEN [c |-> u.c, ret |-> Err("Failed to update order")]
            ELSE
            LET p == set_position_state(u.c, "Open", in.pos)
            IN  IF ~p.ok THEN [c |-> p.c, ret |-> Err("Could not reset position to open")]
                ELSE [c |-> p.c, ret |-> Ok(Unit)]

\* the rollback of submit_order without the position reset
submit_order_rollback_NoReset(c, order, in) ==
    LET u == update_order_state_in_db_and_ui(c, order.id, Rejected, in.w)
    IN  IF ~u.ok THEN [c |-> u.c, ret |-> Err("Failed to update order")]
        ELSE [c |-> u.c, ret |-> Err("Could not post order to orderbook")]

\* submit_order, lines 35-43: the coordinator did not take the order
submit_order_rollback(c, order, in) ==
    LET u == update_order_state_in_db_and_ui(c, order.id, Rejected, in.w)
    IN  IF ~u.ok THEN [c |-> u.c, ret |-> Err("Failed to update order")]
        ELSE
        LET p == set_position_state(u.c, "Open", in.pos)
        IN  IF ~p.ok THEN [c |-> p.c, ret |-> Err("Could not reset position to open")]
            ELSE [c |-> p.c, ret |-> Err("Could not post order to orderbook")]

\* the accepted order marked Open without the position update
submit_order_accepted_NoPosition(c, order, in) ==
    LET u == update_order_state_in_db_and_ui(c, order.id, Open, in.w)
    IN  IF ~u.ok THEN [c |-> u.c, ret |-> Err("Failed to update order")]
        ELSE [c |-> u.c, ret |-> Ok(order.id)]

\* submit_order, lines 45-48: the coordinator took the order
submit_order_accepted(c, order, in) ==
    LET u == update_order_state_in_db_and_ui(c, order.id, Open, in.w)
    IN  IF ~u.ok THEN [c |-> u.c, ret |-> Err("Failed to update order")]
        ELSE
        LET p == update_position_after_order_submitted(u.c, order, in.pos)
        IN  IF ~p.ok THEN [c |-> p.c, ret |-> Err("Failed to update position")]
            ELSE [c |-> p.c, ret |-> Ok(order.id)]

\* submit_order transmitting the order before persisting it
submit_order_PostFirst(c, order, in) ==
    LET chk == get_position_matching_order(c, order, in.acceptable)
    IN  IF ~chk.ok THEN
            LET f == order_failed(chk.c, Some(order.id), "OrderNotAcceptable", in)
            IN  IF f.ret.tag = "Err" THEN f
                ELSE [c |-> f.c, ret |-> Err("Could not submit order")]
        ELSE
        LET post == post_new_order(chk.c, order, in.postOk)
            ins == insert_order(post.c, order, in.insertOk)
        IN  IF ~ins.ok THEN [c |-> ins.c, ret |-> Err("Failed to insert order")]
            ELSE IF ~post.ok THEN submit_order_rollback(ins.c, order, in)
            ELSE submit_order_accepted(ins.c, order, in)

submit_order(c, order, in) ==
    LET chk == get_position_matching_order(c, order, in.acceptable)
    IN  IF ~chk.ok THEN
            LET f == order_failed(chk.c, Some(order.id), "OrderNotAcceptable", in)
            IN  IF f.ret.tag = "Err" THEN f
                ELSE [c |-> f.c, ret |-> Err("Could not submit order")]
        ELSE
        LET ins == insert_order(chk.c, order, in.insertOk)
        IN  IF ~ins.ok THEN [c |-> ins.c, ret |-> Err("Failed to insert order")]
            ELSE
            LET post == post_new_order(ins.c, order, in.postOk)
            IN  IF ~post.ok THEN submit_order_rollback(post.c, order, in)
                ELSE submit_order_accepted(post.c, order, in)

\* order_filling without the compensating transition to Failed
order_filling_NoCompensation(c, order_id, execution_price, in) ==
    LET u == update_order_state_in_db_and_ui(c, order_id, Filling(execution_price), in.w)
    IN  IF ~u.ok THEN [c |-> u.c, ret |-> Err("Failed to set order to filling")]
        ELSE [c |-> u.c, ret |-> Ok(Unit)]

order_filling(c, order_id, execution_price, in) ==
    LET u == update_order_state_in_db_and_ui(c, order_id, Filling(execution_price), in.w)
    IN  IF ~u.ok THEN
            LET f == order_failed(u.c, Some(order_id), "FailedToSetToFilling",
                                  [in EXCEPT !.w = in.w2])
            IN  [c |-> f.c, ret |-> Err("Failed to set order to filling")]
        ELSE [c |-> u.c, ret |-> Ok(Unit)]

\* Order::execution_price(): the price of a Filling or Filled order
execution_price_of(order) ==
    IF order.state.tag \in {"Filling", "Filled"} THEN Some(order.state.execution_price)
    ELSE None

\* order_filled always taking the default execution price
order_filled_DefaultPrice(c, in) ==
    LET got == get_order_being_filled(c, in)
    IN  IF ~got.ok THEN [c |-> got.c, ret |-> Err("no order in filling")]
        ELSE
        LET u == update_order_state_in_db_and_ui(got.c, got.order.id, Filled(0), in.w)
        IN  IF ~u.ok THEN [c |-> u.c, ret |-> Err("Failed to update order")]
            ELSE [c |-> u.c, ret |-> Ok(u.order)]

order_filled(c, in) ==
    LET got == get_order_being_filled(c, in)
    IN  IF ~got.ok THEN [c |-> got.c, ret |-> Err("no order in filling")]
        ELSE
        LET p == execution_price_of(got.order)
            execution_price == IF p = None THEN 0 ELSE p[1]
            u == update_order_state_in_db_and_ui(got.c, got.order.id,
                                                 Filled(execution_price), in.w)
        IN  IF ~u.ok THEN [c |-> u.c, ret |-> Err("Failed to update order")]
            ELSE [c |-> u.c, ret |-> Ok(u.order)]

\* the staleness test with the boundary minute counted as outdated
IsOutdated_Inclusive(order, now) == order.creation_timestamp + ORDER_OUTDATED_AFTER <= now

\* the staleness test of check_open_orders
IsOutdated(order, now) == order.creation_timestamp + ORDER_OUTDATED_AFTER < now

\* One pass of the loop of check_open_orders over a loaded order.
check_open_orders_step(c, order_being_filled, now, in) ==
    IF IsOutdated(order_being_filled, now)
    THEN order_failed(c, Some(order_being_filled.id), "TimedOut", in)
    ELSE [c |-> c, ret |-> Ok(Unit)]

\* The head of check_open_orders: load the open orders.
check_open_orders_load(c, in) ==
    LET r == maybe_get_open_orders(c, in.readOk)
    IN  IF ~r.ok THEN [c |-> r.c, todo |-> <<>>, ret |-> Err("Error when loading open orders")]
        ELSE [c |-> r.c, todo |-> r.found, ret |-> Ok(Unit)]

\* the loop going on with the remaining orders after a forced failure has
\* returned an error, which it returns at the end
RECURSIVE check_open_orders_loop_ContinuesAfterError(_, _, _, _)
check_open_orders_loop_ContinuesAfterError(c, todo, now, in) ==
    IF todo = <<>> THEN [c |-> c, ret |-> Ok(Unit)]
    ELSE LET o == Head(todo)
             r == check_open_orders_step(c, o, now,
                     [in EXCEPT !.w = in.ws[o.id], !.pos = in.poss[o.id]])
             rest == check_open_orders_loop_ContinuesAfterError(r.c, Tail(todo), now, in)
         IN  IF r.ret.tag = "Err" THEN [c |-> rest.c, ret |-> r.ret]
             ELSE rest

\* The loop of check_open_orders; in.ws[id], in.poss[id] are the outcomes of the
\* Store write and of the position reset when order id is forced to Failed.
RECURSIVE check_open_orders_loop(_, _, _, _)
check_open_orders_loop(c, todo, now, in) ==
    IF todo = <<>> THEN [c |-> c, ret |-> Ok(Unit)]
    ELSE LET o == Head(todo)
             r == check_open_orders_step(c, o, now,
                     [in EXCEPT !.w = in.ws[o.id], !.pos = in.poss[o.id]])
         IN  IF r.ret.tag = "Err" THEN r
             ELSE check_open_orders_loop(r.c, Tail(todo), now, in)

check_open_orders(c, now, in) ==
    LET l == check_open_orders_load(c, in)
    IN  IF l.ret.tag = "Err" THEN [c |-> l.c, ret |-> l.ret]
        ELSE check_open_orders_loop(l.c, l.todo, now, in)

\* ---------------------------------------------------------------- state
Ctx == [orders |-> orders, position |-> position, posted |-> posted, log |-> <<>>]

\* the outcomes of the external calls of one handler call
In(acceptable, insertOk, postOk, readOk, pick, w, w2, pos) ==
    [acceptable |-> acceptable, insertOk |-> insertOk, postOk |-> postOk,
     readOk |-> readOk, pick |-> pick, w |-> w, w2 |-> w2, pos |-> pos]

SweepIn(readOk, ws, poss) ==
    [readOk |-> readOk, pick |-> 1, w |-> TRUE, w2 |-> TRUE, pos |-> TRUE,
     ws |-> ws, poss |-> poss]

NewOrder(id, now) == [id |-> id, state |-> Initial, creation_timestamp |-> now]

Idle == [pc |-> "idle", now |-> 0, todo |-> <<>>]

\* the handler's effects reach the Store, and the call is recorded
Commit(r) ==
    /\ orders' = r.c.orders
    /\ position' = r.c.position
    /\ posted' = r.c.posted

\* the fee schedule the node starts with
InitialLdkConfig ==
    [forwarding_fee_base_msat |-> 1000, forwarding_fee_proportional_millionths |-> 50]
\* the functions that build a hop
HopBuilders == {"prepare_onboarding_payment", "prepare_payment_with_route_hint"}
NotBuilding == [pc |-> "idle", base_msat |-> 0, proportional_millionths |-> 0]

\* no wait_for_payment call has been made
NotWaiting ==
    [pc |-> "idle", expected_status |-> "Succeeded", hash |-> "h1", deadline |-> 0,
     elapsed |-> 0, sleeps |-> 0, reads |-> 0, ret |-> "none"]

Init ==
    /\ orders = <<>>
    /\ position = "Open"
    /\ posted = {}
    /\ clock = 0
    /\ sweep = Idle
    /\ coordinator_orders = <<>>
    /\ matches = <<>>
    /\ user_feed = <<>>
    /\ tasks = {}
    /\ notifier = <<>>
    /\ monitor = "running"
    /\ fake_channel_payments = <<>>
    /\ map_lock = None
    /\ channels = <<>>
    /\ payments = <<>>
    /\ onboarding = {}
    /\ waiter = NotWaiting
    /\ customstruct = <<>>
    /\ loaded = None
    /\ ldk_config_rw = [value |-> InitialLdkConfig, readers |-> {}]
    /\ hop_build = [fn \in HopBuilders |-> NotBuilding]
    /\ issued = {}
    /\ list_channels = <<>>
    /\ route_hint = None

\* -------------------------------------------------------------- actions
\* Outcomes of external calls a handler never reaches are fixed to TRUE: they
\* cannot change what it does.
SubmitInputs ==
    {in \in {In(a, i, p, TRUE, 1, w, TRUE, pos) : a, i, p, w, pos \in BOOLEAN} :
        /\ ~in.acceptable => in.insertOk /\ in.postOk /\ in.w /\ in.pos
        /\ ~in.insertOk => in.postOk /\ in.w /\ in.pos
        /\ ~in.w => in.pos}

FillingInputs ==
    {in \in {In(TRUE, TRUE, TRUE, TRUE, 1, w, w2, pos) : w, w2, pos \in BOOLEAN} :
        /\ in.w => in.w2 /\ in.pos
        /\ ~in.w2 => in.pos}

\* the orders maybe_get_order_in_filling may return
Picks == IF OrdersInState(orders, {"Filling"}) = {} THEN {1}
         ELSE OrdersInState(orders, {"Filling"})

FilledInputs ==
    {in \in {In(TRUE, TRUE, TRUE, r, pick, w, TRUE, TRUE) : r, w \in BOOLEAN, pick \in Picks} :
        ~in.readOk => in.w /\ in.pick = CHOOSE q \in Picks : TRUE}

FailedInputs(order_id) ==
    {in \in {In(TRUE, TRUE, TRUE, r, pick, w, TRUE, pos) :
                r, w, pos \in BOOLEAN, pick \in Picks} :
        /\ order_id # None => in.readOk /\ in.pick = CHOOSE q \in Picks : TRUE
        /\ ~in.readOk => in.w /\ in.pos /\ in.pick = CHOOSE q \in Picks : TRUE
        /\ ~in.w => in.pos}

\* the open orders a sweep at time now forces to Failed
Outdated(now) ==
    {id \in OrdersInState(orders, {"Initial", "Open", "Filling"}) : IsOutdated(orders[id], now)}

SweepInputs(now) ==
    {in \in {SweepIn(r, ws, poss) : r \in BOOLEAN, ws, poss \in [OrderIds -> BOOLEAN]} :
        /\ ~in.readOk => \A id \in OrderIds : in.ws[id] /\ in.poss[id]
        /\ \A id \in OrderIds :
            /\ id \notin Outdated(now) => in.ws[id] /\ in.poss[id]
            /\ ~in.ws[id] => in.poss[id]
            /\ ~(in.ws[id] /\ in.poss[id]) =>
                  \A later \in OrderIds : later > id => in.ws[later] /\ in.poss[later]}

SubmitOrder ==
    \E id \in OrderIds \ DOMAIN orders, in \in SubmitInputs :
        /\ clock \in CreationTimes
        /\ Commit(submit_order(Ctx, NewOrder(id, clock), in))
        /\ UNCHANGED <<clock, sweep, coordinatorVars, nodeVars, dbVars, feeVars>>

OrderFilling ==
    \E id \in OrderIds, execution_price \in Prices, in \in FillingInputs :
        /\ Commit(order_filling(Ctx, id, execution_price, in))
        /\ UNCHANGED <<clock, sweep, coordinatorVars, nodeVars, dbVars, feeVars>>

OrderFilled ==
    \E in \in FilledInputs :
        /\ Commit(order_filled(Ctx, in))
        /\ UNCHANGED <<clock, sweep, coordinatorVars, nodeVars, dbVars, feeVars>>

OrderFailed ==
    \E order_id \in {None} \cup {Some(id) : id \in OrderIds}, reason \in CallerReasons :
        \E in \in FailedInputs(order_id) :
            /\ Commit(order_failed(Ctx, order_id, reason, in))
            /\ UNCHANGED <<clock, sweep, coordinatorVars, nodeVars, dbVars, feeVars>>

CheckOpenOrders ==
    \E in \in SweepInputs(clock) :
        /\ Commit(check_open_orders(Ctx, clock, in))
        /\ UNCHANGED <<clock, sweep, coordinatorVars, nodeVars, dbVars, feeVars>>

\* time passes to the next instant at which the clock is read
Tick ==
    /\ \E t \in Instants : t > clock
    /\ clock' = CHOOSE t \in Instants : t > clock /\ \A u \in Instants : u > clock => t <= u
    /\ UNCHANGED <<orders, position, posted, sweep, coordinatorVars, nodeVars, dbVars, feeVars>>

Next ==
    \/ SubmitOrder
    \/ OrderFilling
    \/ OrderFilled
    \/ OrderFailed
    \/ CheckOpenOrders
    \/ Tick

Spec == Init /\ [][Next]_vars

\* ------------------------------------------- the sweep as its own task
\* check_open_orders runs in a periodic task of its own: between its load of the
\* open orders and each pass of its loop the other handlers may commit.
SweepStepInputs ==
    {in \in {In(TRUE, TRUE, TRUE, TRUE, 1, w, TRUE, pos) : w, pos \in BOOLEAN} : ~in.w => in.pos}

CheckOpenOrdersLoad ==
    \E readOk \in BOOLEAN :
        LET r == check_open_orders_load(Ctx, In(TRUE, TRUE, TRUE, readOk, 1, TRUE, TRUE, TRUE))
        IN  /\ sweep.pc = "idle"
            /\ Commit(r)
            /\ sweep' = IF r.todo = <<>> THEN Idle
                        ELSE [pc |-> "loop", now |-> clock, todo |-> r.todo]
            /\ UNCHANGED <<clock, coordinatorVars, nodeVars, dbVars, feeVars>>

CheckOpenOrdersPass ==
    \E in \in SweepStepInputs :
        /\ sweep.pc = "loop"
        /\ LET r == check_open_orders_step(Ctx, Head(sweep.todo), sweep.now, in)
           IN  /\ Commit(r)
               /\ sweep' = IF r.ret.tag = "Err" \/ Tail(sweep.todo) = <<>> THEN Idle
                           ELSE [sweep EXCEPT !.todo = Tail(@)]
        /\ UNCHANGED <<clock, coordinatorVars, nodeVars, dbVars, feeVars>>

NextConcurrent ==
    \/ SubmitOrder
    \/ OrderFilling
    \/ OrderFilled
    \/ OrderFailed
    \/ CheckOpenOrdersLoad
    \/ CheckOpenOrdersPass
    \/ Tick

SpecConcurrent == Init /\ [][NextConcurrent]_vars

\* ============================================================ coordinator
\* Match notifier (orderbook/async_match.rs) over the coordinator's tables
\* (orderbook/db/orders.rs).  Its operators work on a context
\*   c = [orders, matches, notifier, log]
\* of the two tables, the outbound channel and the log of external calls.

\* match rows per order
MaxMatches == 2

Traders == {"t1", "t2"}
\* orderbook_commons::OrderState / db OrderState (orders.rs:61-81)
CoordinatorOrderState == {"Open", "Matched", "Taken", "Failed"}
\* OrderReason (orders.rs:124-140)
OrderReason == {"Manual", "Expired"}
\* orderbook_commons::OrderType / db OrderType (orders.rs:43-59)
CoordinatorOrderType == {"Market", "Limit"}
\* expiry of an order and OffsetDateTime::now_utc() of the coordinator
MaxExpiry == 2
Expiries == 1..MaxExpiry
NowUtc == 1..(MaxExpiry + 1)
Network == "Regtest"
\* async_match.rs:98-101, the oracle's public key
ORACLE_PK == "16f88cf7d21e6c0f46bcbc983a4e3b19726c6c98858cc31c83551a88fde171c0"

\* the uuid of the order a trader submits; a trader holds one order at a time
TraderOrderId(trader_id) == <<"order", trader_id>>
OtherTrader(trader_id) == CHOOSE t \in Traders : t # trader_id

\* orders::insert(conn, order, order_reason) -> QueryResult<Order>: the row is
\* created with the given reason in state Open
insert(c, order, order_reason, ok) ==
    LET good == ok /\ order.trader_id \notin DOMAIN c.orders
        row == [id |-> order.id, trader_id |-> order.trader_id,
                order_type |-> order.order_type, expiry |-> order.expiry,
                order_state |-> "Open", order_reason |-> order_reason]
    IN  [ok |-> good,
         c |-> IF good THEN [c EXCEPT !.orders = (order.trader_id :> row) @@ @] ELSE c]

\* orders::set_order_state(conn, id, order_state) -> QueryResult<Order>
set_order_state(c, id, order_state, ok) ==
    LET hit == {t \in DOMAIN c.orders : c.orders[t].id = id}
        good == ok /\ hit # {}
    IN  [ok |-> good,
         c |-> IF good
               THEN [c EXCEPT !.orders =
                        [t \in DOMAIN c.orders |->
                            IF t \in hit THEN [c.orders[t] EXCEPT !.order_state = order_state]
                            ELSE c.orders[t]]]
               ELSE c]

\* set_expired_limit_orders_to_failed failing every expired open order
set_expired_limit_orders_to_failed_AnyType(c, now, ok) ==
    LET hit == {t \in DOMAIN c.orders :
                    /\ c.orders[t].order_state = "Open"
                    /\ c.orders[t].expiry < now}
        rows == [t \in DOMAIN c.orders |->
                    IF t \in hit THEN [c.orders[t] EXCEPT !.order_state = "Failed"]
                    ELSE c.orders[t]]
    IN  IF ~ok THEN [c |-> c, ret |-> Err("QueryResult")]
        ELSE [c |-> [c EXCEPT !.orders = rows], ret |-> Ok({rows[t] : t \in hit})]

\* orders::set_expired_limit_orders_to_failed(conn)
\*   -> QueryResult<Vec<OrderbookOrder>> (orders.rs:293-307): one UPDATE
\* statement over the rows that are Open, Limit and with expiry < now, which
\* returns the rows it changed; now is OffsetDateTime::now_utc().  The Vec is
\* given as the set of its rows, the statement fixing no order among them.
set_expired_limit_orders_to_failed(c, now, ok) ==
    LET hit == {t \in DOMAIN c.orders :
                    /\ c.orders[t].order_state = "Open"
                    /\ c.orders[t].order_type = "Limit"
                    /\ c.orders[t].expiry < now}
        rows == [t \in DOMAIN c.orders |->
                    IF t \in hit THEN [c.orders[t] EXCEPT !.order_state = "Failed"]
                    ELSE c.orders[t]]
    IN  IF ~ok THEN [c |-> c, ret |-> Err("QueryResult")]
        ELSE [c |-> [c EXCEPT !.orders = rows], ret |-> Ok({rows[t] : t \in hit})]

\* orders::get_by_trader_id_and_state(conn, trader_id, order_state)
\*   -> QueryResult<Option<Order>>
get_by_trader_id_and_state(c, trader_id, order_state, ok) ==
    LET hit == {t \in DOMAIN c.orders :
                    c.orders[t].trader_id = trader_id /\ c.orders[t].order_state = order_state}
    IN  [ok |-> ok,
         found |-> IF ok /\ hit # {} THEN Some(c.orders[CHOOSE t \in hit : TRUE]) ELSE None,
         c |-> Logged(c, Call("get_by_trader_id_and_state", trader_id, NoState, ok))]

\* the rows of the matches table for an order
RowsOf(table, order_id) == IF order_id \in DOMAIN table THEN table[order_id] ELSE <<>>

\* matches::get_matches_by_order_id(conn, order_id) -> QueryResult<Vec<Matches>>
get_matches_by_order_id(c, order_id, ok) ==
    [ok |-> ok,
     found |-> IF ok THEN RowsOf(c.matches, order_id) ELSE <<>>,
     c |-> Logged(c, Call("get_matches_by_order_id", order_id, NoState, ok))]

\* matches::insert: the k-th row of an order, as the matching engine writes it
MatchRow(order_id, trader_id, k) ==
    [id |-> k, order_id |-> order_id, quantity |-> 1000 * k,
     match_trader_id |-> OtherTrader(trader_id), execution_price |-> 1]

\* coordinator_commons::calculate_next_expiry(now, network)
calculate_next_expiry(network) == <<"next_expiry", network>>

\* mpsc::Sender::send(msg): fails when the receiver is gone
send(c, msg, ok) ==
    [ok |-> ok,
     c |-> Logged(IF ok THEN [c EXCEPT !.notifier = Append(@, msg)] ELSE c,
                  Call("send", msg.trader_id, msg.message, ok))]

\* Match (async_match.rs:112-118)
Match(m) ==
    [id |-> m.id, order_id |-> m.order_id, quantity |-> m.quantity,
     pubkey |-> m.match_trader_id, execution_price |-> m.execution_price]

\* a FilledWith built from whatever rows there are, none included
get_filled_with_from_matches_Unchecked(ms, network) ==
    Ok([order_id |-> IF ms = <<>> THEN None ELSE Some(ms[1].order_id),
        expiry_timestamp |-> calculate_next_expiry(network),
        oracle_pk |-> ORACLE_PK,
        matches |-> [i \in 1..Len(ms) |-> Match(ms[i])]])

\* a FilledWith built from the first row only
get_filled_with_from_matches_FirstOnly(ms, network) ==
    IF ms = <<>> THEN Err("Need at least one matches record to construct a FilledWith")
    ELSE Ok([order_id |-> Some(ms[1].order_id),
             expiry_timestamp |-> calculate_next_expiry(network),
             oracle_pk |-> ORACLE_PK,
             matches |-> <<Match(ms[1])>>])

get_filled_with_from_matches(ms, network) ==
    IF ms = <<>> THEN Err("Need at least one matches record to construct a FilledWith")
    ELSE Ok([order_id |-> Some(ms[1].order_id),
             expiry_timestamp |-> calculate_next_expiry(network),
             oracle_pk |-> ORACLE_PK,
             matches |-> [i \in 1..Len(ms) |-> Match(ms[i])]])

\* Message::Match / Message::AsyncMatch (async_match.rs:67-70)
MessageFor(order, filled_with) ==
    IF order.order_reason = "Manual"
    THEN [tag |-> "Match", filled_with |-> filled_with]
    ELSE [tag |-> "AsyncMatch", order |-> order, filled_with |-> filled_with]

\* OrderbookMessage::TraderMessage (async_match.rs:74-79)
TraderMessage(trader_id, message) ==
    [trader_id |-> trader_id, message |-> message, notification |-> None]

\* process_pending_match sending again after a failed send
process_pending_match_Resend(c, trader_id, network, in) ==
    LET q == get_by_trader_id_and_state(c, trader_id, "Matched", in.queryOk)
    IN  IF ~q.ok THEN [c |-> q.c, ret |-> Err("query failed")]
        ELSE IF q.found = None THEN [c |-> q.c, ret |-> Ok(Unit)]
        ELSE
        LET order == q.found[1]
            m == get_matches_by_order_id(q.c, order.id, in.matchesOk)
            filled_with == get_filled_with_from_matches(m.found, network)
        IN  IF ~m.ok THEN [c |-> m.c, ret |-> Err("query failed")]
            ELSE IF filled_with.tag = "Err" THEN [c |-> m.c, ret |-> filled_with]
            ELSE
            LET msg == TraderMessage(trader_id, MessageFor(order, filled_with.val))
                s1 == send(m.c, msg, in.sendOk)
            IN  IF s1.ok THEN [c |-> s1.c, ret |-> Ok(Unit)]
                ELSE [c |-> send(s1.c, msg, TRUE).c, ret |-> Ok(Unit)]

\* process_pending_match (async_match.rs:55-86); in.queryOk, in.matchesOk and
\* in.sendOk are the outcomes of the two queries and of the send
process_pending_match(c, trader_id, network, in) ==
    LET q == get_by_trader_id_and_state(c, trader_id, "Matched", in.queryOk)
    IN  IF ~q.ok THEN [c |-> q.c, ret |-> Err("query failed")]
        ELSE IF q.found = None THEN [c |-> q.c, ret |-> Ok(Unit)]
        ELSE
        LET order == q.found[1]
            m == get_matches_by_order_id(q.c, order.id, in.matchesOk)
            filled_with == get_filled_with_from_matches(m.found, network)
        IN  IF ~m.ok THEN [c |-> m.c, ret |-> Err("query failed")]
            ELSE IF filled_with.tag = "Err" THEN [c |-> m.c, ret |-> filled_with]
            ELSE
            LET msg == TraderMessage(trader_id, MessageFor(order, filled_with.val))
            IN  [c |-> send(m.c, msg, in.sendOk).c, ret |-> Ok(Unit)]

\* ------------------------------------------------ coordinator: state, actions
CoordinatorCtx ==
    [orders |-> coordinator_orders, matches |-> matches, notifier |-> notifier, log |-> <<>>]

NotifierIn(queryOk, matchesOk, sendOk) ==
    [queryOk |-> queryOk, matchesOk |-> matchesOk, sendOk |-> sendOk]

\* outcomes of the calls of one process_pending_match; those of calls after a
\* failed one are fixed to TRUE
NotifierInputs ==
    {in \in {NotifierIn(q, m, s) : q, m, s \in BOOLEAN} :
        /\ ~in.queryOk => in.matchesOk /\ in.sendOk
        /\ ~in.matchesOk => in.sendOk}

\* a trader's order reaches the orderbook (orders::insert)
CoordinatorInsert ==
    \E trader_id \in Traders \ DOMAIN coordinator_orders, order_reason \in OrderReason :
        LET r == insert(CoordinatorCtx,
                        [id |-> TraderOrderId(trader_id), trader_id |-> trader_id,
                         order_type |-> "Market", expiry |-> MaxExpiry],
                        order_reason, TRUE)
        IN  /\ coordinator_orders' = r.c.orders
            /\ UNCHANGED <<matches, user_feed, tasks, notifier, monitor, clientVars, nodeVars, dbVars, feeVars>>

\* the matching engine or the trade execution moves an order on
\* (orders::set_order_state)
CoordinatorSetOrderState ==
    \E trader_id \in DOMAIN coordinator_orders, order_state \in {"Matched", "Taken"} :
        LET r == set_order_state(CoordinatorCtx, coordinator_orders[trader_id].id,
                                 order_state, TRUE)
        IN  /\ coordinator_orders[trader_id].order_state # order_state
            /\ coordinator_orders' = r.c.orders
            /\ UNCHANGED <<matches, user_feed, tasks, notifier, monitor, clientVars, nodeVars, dbVars, feeVars>>

\* the matching engine stores one more match row of an order
InsertMatch ==
    \E trader_id \in DOMAIN coordinator_orders :
        LET order_id == coordinator_orders[trader_id].id
            rows == RowsOf(matches, order_id)
        IN  /\ Len(rows) < MaxMatches
            /\ matches' = (order_id :> Append(rows, MatchRow(order_id, trader_id, Len(rows) + 1)))
                          @@ matches
            /\ UNCHANGED <<coordinator_orders, user_feed, tasks, notifier, monitor,
                           clientVars, nodeVars, dbVars, feeVars>>

\* a trader registers on the websocket: NewUserMessage on the broadcast.  A
\* trader reconnects again once the task of its last reconnect has ended.
Reconnect ==
    \E trader_id \in Traders :
        /\ \A i \in 1..Len(user_feed) : user_feed[i] # trader_id
        /\ trader_id \notin tasks
        /\ user_feed' = Append(user_feed, trader_id)
        /\ UNCHANGED <<coordinator_orders, matches, tasks, notifier, monitor,
                       clientVars, nodeVars, dbVars, feeVars>>

\* monitor (async_match.rs:34-45), one pass of its loop: receive the event,
\* check out a connection (pool.get()?), spawn the task
MonitorRecv ==
    \E poolOk \in BOOLEAN :
        /\ monitor = "running"
        /\ user_feed # <<>>
        /\ user_feed' = Tail(user_feed)
        /\ IF poolOk
           THEN tasks' = tasks \cup {Head(user_feed)} /\ UNCHANGED monitor
           ELSE monitor' = "Err" /\ UNCHANGED tasks
        /\ UNCHANGED <<coordinator_orders, matches, notifier, clientVars, nodeVars, dbVars, feeVars>>

\* a spawned task runs process_pending_match (async_match.rs:38-43); an error
\* is logged and ends this task only.  The task waits while the channel is full.
TaskRun ==
    \E trader_id \in tasks, in \in NotifierInputs :
        LET r == process_pending_match(CoordinatorCtx, trader_id, Network, in)
        IN  /\ notifier = <<>>
            /\ notifier' = r.c.notifier
            /\ tasks' = tasks \ {trader_id}
            /\ UNCHANGED <<coordinator_orders, matches, user_feed, monitor,
                           clientVars, nodeVars, dbVars, feeVars>>

\* the receiver of the outbound channel takes the next message
Deliver ==
    /\ notifier # <<>>
    /\ notifier' = Tail(notifier)
    /\ UNCHANGED <<coordinator_orders, matches, user_feed, tasks, monitor,
                   clientVars, nodeVars, dbVars, feeVars>>

NextNotifier ==
    \/ CoordinatorInsert
    \/ CoordinatorSetOrderState
    \/ InsertMatch
    \/ Reconnect
    \/ MonitorRecv
    \/ TaskRun
    \/ Deliver

SpecNotifier == Init /\ [][NextNotifier]_vars

\* ------------------------------------------------- expiry of limit orders
\* a trader submits an order of either type with some expiry
\* (orders::insert)
InsertNewOrder ==
    \E trader_id \in Traders \ DOMAIN coordinator_orders,
       order_type \in CoordinatorOrderType, expiry \in Expiries :
        LET r == insert(CoordinatorCtx,
                        [id |-> TraderOrderId(trader_id), trader_id |-> trader_id,
                         order_type |-> order_type, expiry |-> expiry],
                        "Manual", TRUE)
        IN  /\ coordinator_orders' = r.c.orders
            /\ UNCHANGED <<matches, user_feed, tasks, notifier, monitor, clientVars, nodeVars, dbVars, feeVars>>

\* the sweep over the expired limit orders, at any time and with either
\* outcome of the query
SetExpiredLimitOrdersToFailed ==
    \E now \in NowUtc, ok \in BOOLEAN :
        LET r == set_expired_limit_orders_to_failed(CoordinatorCtx, now, ok)
        IN  /\ coordinator_orders' = r.c.orders
            /\ UNCHANGED <<matches, user_feed, tasks, notifier, monitor, clientVars, nodeVars, dbVars, feeVars>>

NextExpiry ==
    \/ InsertNewOrder
    \/ CoordinatorSetOrderState
    \/ SetExpiredLimitOrdersToFailed

SpecExpiry == Init /\ [][NextExpiry]_vars

\* ========================================================= Lightning node
\* JIT channel negotiation and payment dispatch (ln-dlc-node/src/node/invoice.rs).
\* The operators work on a context
\*   c = [fake_channel_payments, map_lock, channels, payments, log]
\* of the pending-intents map and the holder of its mutex, the Store's channel and payment tables, and the
\* log of the calls to the channel manager, the payment layer and the Store.

\* intercept scids the channel manager hands out are 1..MaxScids
MaxScids == 2
\* amounts in sat passed to pay_invoice are 1..MaxAmount
MaxAmount == 2

\* invoice.rs:230 and :239, Retry::Attempts(10)
RETRY_ATTEMPTS == 10

Scids == 1..MaxScids
UserChannelIds == {"u1", "u2"}
LiquidityRequests ==
    [trader_id : Traders, user_channel_id : UserChannelIds, liquidity_option_id : {1}]

\* ldk_config.channel_config, as read under the read lock
LdkConfigs ==
    {[forwarding_fee_base_msat |-> 1000, forwarding_fee_proportional_millionths |-> 50],
     [forwarding_fee_base_msat |-> 2000, forwarding_fee_proportional_millionths |-> 70]}

\* channel_manager.list_channels(): channels with counterparty and, once
\* confirmed, short channel id
ChannelDetails(node_id, short_channel_id) ==
    [counterparty |-> node_id, short_channel_id |-> short_channel_id]
ChannelLists ==
    {<<>>,
     <<ChannelDetails("t1", Some(7))>>,
     <<ChannelDetails("t1", None), ChannelDetails("t1", Some(7))>>,
     <<ChannelDetails("t2", Some(8)), ChannelDetails("t1", None)>>}

\* invoices: one with a fixed amount, one without amount
Invoice(payment_hash, amount_milli_satoshis) ==
    [payment_hash |-> payment_hash, amount_milli_satoshis |-> amount_milli_satoshis,
     description |-> <<"description", payment_hash>>]
Invoices == {Invoice("h1", Some(2000)), Invoice("h2", None)}
PaymentHashes == {i.payment_hash : i \in Invoices}
Amounts == {None} \cup {Some(a) : a \in 1..MaxAmount}

HTLCStatus == {"Pending", "Succeeded", "Failed"}
\* PaymentError: Ok(payment_id), Err(Invoice(..)) or Err(Sending(failure))
RetryableSendFailure == {"DuplicatePayment", "PaymentExpired", "RouteNotFound"}
PaymentResults == {"Ok", "Invoice"} \cup RetryableSendFailure

retryable_send_failure_to_string(failure) ==
    CASE failure = "DuplicatePayment" -> "Duplicate payment"
      [] failure = "PaymentExpired" -> "Payment expired"
      [] failure = "RouteNotFound" -> "Route not found"

\* channel_manager.get_intercept_scid(): a scid of the intercept namespace that
\* is in use neither as a key of the map nor by a call in progress
FreshScids(c, busy) == Scids \ (DOMAIN c.fake_channel_payments \cup busy)
get_intercept_scid(c, pick) ==
    [scid |-> pick, c |-> Logged(c, Call("get_intercept_scid", pick, NoState, TRUE))]

\* Storage::upsert_channel(channel) -> Result<()>
upsert_channel(c, channel, ok) ==
    [ok |-> ok,
     c |-> Logged(IF ok THEN [c EXCEPT !.channels = (channel.user_channel_id :> channel) @@ @]
                  ELSE c,
                  Call("upsert_channel", channel.user_channel_id, NoState, ok))]

\* Storage::insert_payment(hash, info) -> Result<()>: one atomic write of the
\* record under the hash
insert_payment(c, payment_hash, info, ok) ==
    [ok |-> ok,
     c |-> Logged(IF ok THEN [c EXCEPT !.payments = (payment_hash :> info) @@ @] ELSE c,
                  Call("insert_payment", payment_hash, [tag |-> info.status], ok))]

\* lightning_invoice::payment::pay_invoice / pay_zero_value_invoice: the payment
\* is submitted to the payment layer, which answers with result
pay(c, fn, invoice, amount_msats, retry, result) ==
    [result |-> result,
     c |-> Logged(c, Call(fn, invoice.payment_hash,
                          [tag |-> "submit", amount_msats |-> amount_msats, retry |-> retry],
                          result = "Ok"))]

\* Channel::new_jit_channel(user_channel_id, trader_id, liquidity_option_id)
new_jit_channel(user_channel_id, trader_id, liquidity_option_id) ==
    [user_channel_id |-> user_channel_id, counterparty |-> trader_id,
     liquidity_option_id |-> liquidity_option_id, channel_state |-> "Announced"]

\* RouteHintHop (invoice.rs:153-165 and 204-216)
RouteHintHop(short_channel_id, ldk_config) ==
    [src_node_id |-> "self.info.pubkey",
     short_channel_id |-> short_channel_id,
     fees |-> [base_msat |-> ldk_config.forwarding_fee_base_msat,
               proportional_millionths |-> ldk_config.forwarding_fee_proportional_millionths],
     cltv_expiry_delta |-> "MIN_CLTV_EXPIRY_DELTA",
     htlc_minimum_msat |-> None,
     htlc_maximum_msat |-> None]

\* the insert dropping the trader's earlier requests
prepare_onboarding_payment_insert_OnePerTrader(c, liquidity_request, intercept_scid) ==
    LET kept == {s \in DOMAIN c.fake_channel_payments :
                    c.fake_channel_payments[s].trader_id # liquidity_request.trader_id}
    IN  Logged([c EXCEPT !.fake_channel_payments =
                    (intercept_scid :> liquidity_request)
                    @@ [s \in kept |-> c.fake_channel_payments[s]],
                         !.map_lock = None],
               Call("fake_channel_payments.insert", intercept_scid, NoState, TRUE))

\* the request registered without its liquidity option
prepare_onboarding_payment_insert_NoOption(c, liquidity_request, intercept_scid) ==
    Logged([c EXCEPT !.fake_channel_payments =
                (intercept_scid :> [liquidity_request EXCEPT !.liquidity_option_id = 0]) @@ @,
                     !.map_lock = None],
           Call("fake_channel_payments.insert", intercept_scid, NoState, TRUE))

\* the guard of the map kept until the function returns
prepare_onboarding_payment_insert_KeepsGuard(c, liquidity_request, intercept_scid) ==
    Logged([c EXCEPT !.fake_channel_payments = (intercept_scid :> liquidity_request) @@ @],
           Call("fake_channel_payments.insert", intercept_scid, NoState, TRUE))

\* prepare_onboarding_payment, lines 147-148: the mutex of the map is taken
prepare_onboarding_payment_lock(c, intercept_scid) ==
    [c EXCEPT !.map_lock = Some(intercept_scid)]

\* prepare_onboarding_payment, line 149: the insert under the lock; the guard is
\* a temporary of the statement and is dropped at its end
prepare_onboarding_payment_insert(c, liquidity_request, intercept_scid) ==
    Logged([c EXCEPT !.fake_channel_payments = (intercept_scid :> liquidity_request) @@ @,
                     !.map_lock = None],
           Call("fake_channel_payments.insert", intercept_scid, NoState, TRUE))

\* the registration taken back when the shadow channel cannot be persisted
prepare_onboarding_payment_persist_RollsBack(c, liquidity_request, intercept_scid, in) ==
    LET route_hint_hop == RouteHintHop(intercept_scid, in.ldk_config)
        channel == new_jit_channel(liquidity_request.user_channel_id,
                                   liquidity_request.trader_id,
                                   liquidity_request.liquidity_option_id)
        u == upsert_channel(c, channel, in.upsertOk)
    IN  IF ~u.ok
        THEN [c |-> [u.c EXCEPT !.fake_channel_payments =
                        [s \in DOMAIN @ \ {intercept_scid} |-> @[s]]],
              ret |-> Err("Failed to insert shadow JIT channel")]
        ELSE [c |-> u.c, ret |-> Ok(route_hint_hop)]

\* prepare_onboarding_payment, lines 151-185: build the hop, persist the shadow
\* channel, return the hop
prepare_onboarding_payment_persist(c, liquidity_request, intercept_scid, in) ==
    LET route_hint_hop == RouteHintHop(intercept_scid, in.ldk_config)
        channel == new_jit_channel(liquidity_request.user_channel_id,
                                   liquidity_request.trader_id,
                                   liquidity_request.liquidity_option_id)
        u == upsert_channel(c, channel, in.upsertOk)
    IN  IF ~u.ok THEN [c |-> u.c, ret |-> Err("Failed to insert shadow JIT channel")]
        ELSE [c |-> u.c, ret |-> Ok(route_hint_hop)]

\* prepare_onboarding_payment (invoice.rs:139-186); in.scid is the scid the
\* channel manager hands out
prepare_onboarding_payment(c, liquidity_request, in) ==
    LET a == get_intercept_scid(c, in.scid)
        l == prepare_onboarding_payment_lock(a.c, a.scid)
        b == prepare_onboarding_payment_insert(l, liquidity_request, a.scid)
    IN  prepare_onboarding_payment_persist(b, liquidity_request, a.scid, in)

\* prepare_payment_with_route_hint passing over the channels that have no short
\* channel id yet
prepare_payment_with_route_hint_SkipUnconfirmed(c, target_node, in) ==
    LET c1 == Logged(c, Call("list_channels", target_node, NoState, TRUE))
        hits == {i \in 1..Len(in.channels) :
                    /\ in.channels[i].counterparty = target_node
                    /\ in.channels[i].short_channel_id # None}
    IN  IF hits = {} THEN [c |-> c1, ret |-> Err("Couldn't find channel")]
        ELSE
        LET channel == in.channels[CHOOSE i \in hits : \A j \in hits : i <= j]
        IN  [c |-> c1, ret |-> Ok(RouteHintHop(channel.short_channel_id[1], in.ldk_config))]

\* prepare_payment_with_route_hint taking the last channel with the target
prepare_payment_with_route_hint_LastChannel(c, target_node, in) ==
    LET c1 == Logged(c, Call("list_channels", target_node, NoState, TRUE))
        hits == {i \in 1..Len(in.channels) : in.channels[i].counterparty = target_node}
    IN  IF hits = {} THEN [c |-> c1, ret |-> Err("Couldn't find channel")]
        ELSE
        LET channel == in.channels[CHOOSE i \in hits : \A j \in hits : i >= j]
        IN  IF channel.short_channel_id = None
            THEN [c |-> c1, ret |-> Err("Couldn't find short channel id for channel")]
            ELSE [c |-> c1,
                  ret |-> Ok(RouteHintHop(channel.short_channel_id[1], in.ldk_config))]

\* prepare_payment_with_route_hint (invoice.rs:188-225)
prepare_payment_with_route_hint(c, target_node, in) ==
    LET c1 == Logged(c, Call("list_channels", target_node, NoState, TRUE))
        hits == {i \in 1..Len(in.channels) : in.channels[i].counterparty = target_node}
    IN  IF hits = {} THEN [c |-> c1, ret |-> Err("Couldn't find channel")]
        ELSE
        LET channel == in.channels[CHOOSE i \in hits : \A j \in hits : i <= j]
        IN  IF channel.short_channel_id = None
            THEN [c |-> c1, ret |-> Err("Couldn't find short channel id for channel")]
            ELSE [c |-> c1,
                  ret |-> Ok(RouteHintHop(channel.short_channel_id[1], in.ldk_config))]

PaymentInfo(status, amt_msat, description, invoice) ==
    [preimage |-> None, secret |-> None, status |-> status,
     amt_msat |-> Some(amt_msat), fee_msat |-> None, flow |-> "Outbound",
     description |-> description, invoice |-> Some(invoice.payment_hash)]

\* pay_invoice submitting the zero-amount invoice with amount 0 when no
\* amount is given
pay_invoice_DefaultAmount(c, invoice, amount, in) ==
    LET fixed == invoice.amount_milli_satoshis # None
        amt_msat == IF fixed THEN invoice.amount_milli_satoshis[1]
                    ELSE IF amount = None THEN 0 ELSE amount[1] * 1000
        p == pay(c, IF fixed THEN "pay_invoice" ELSE "pay_zero_value_invoice",
                 invoice, amt_msat, RETRY_ATTEMPTS, in.result)
    IN  IF p.result = "Invoice" THEN [c |-> p.c, ret |-> Err("Invalid invoice")]
        ELSE
        LET status == IF p.result = "Ok" THEN "Pending" ELSE "Failed"
            w == insert_payment(p.c, invoice.payment_hash,
                                PaymentInfo(status, amt_msat, invoice.description, invoice),
                                in.insertOk)
        IN  IF ~w.ok THEN [c |-> w.c, ret |-> Err("Failed to insert payment")]
            ELSE IF status = "Failed"
            THEN [c |-> w.c, ret |-> Err(<<"Failed to send payment",
                                           retryable_send_failure_to_string(p.result)>>)]
            ELSE [c |-> w.c, ret |-> Ok(Unit)]

\* pay_invoice telling the caller of a send failure without recording it
pay_invoice_FailureUnrecorded(c, invoice, amount, in) ==
    LET fixed == invoice.amount_milli_satoshis # None
    IN  IF ~fixed /\ amount = None
        THEN [c |-> c, ret |-> Err("Can't pay zero amount invoice without amount")]
        ELSE
        LET amt_msat == IF fixed THEN invoice.amount_milli_satoshis[1] ELSE amount[1] * 1000
            p == pay(c, IF fixed THEN "pay_invoice" ELSE "pay_zero_value_invoice",
                     invoice, amt_msat, RETRY_ATTEMPTS, in.result)
        IN  IF p.result = "Invoice" THEN [c |-> p.c, ret |-> Err("Invalid invoice")]
            ELSE IF p.result # "Ok"
            THEN [c |-> p.c, ret |-> Err(<<"Failed to send payment",
                                           retryable_send_failure_to_string(p.result)>>)]
            ELSE
            LET w == insert_payment(p.c, invoice.payment_hash,
                                    PaymentInfo("Pending", amt_msat, invoice.description, invoice),
                                    in.insertOk)
            IN  IF ~w.ok THEN [c |-> w.c, ret |-> Err("Failed to insert payment")]
                ELSE [c |-> w.c, ret |-> Ok(Unit)]

\* pay_invoice recording an accepted payment as Succeeded
pay_invoice_RecordsSucceeded(c, invoice, amount, in) ==
    LET fixed == invoice.amount_milli_satoshis # None
    IN  IF ~fixed /\ amount = None
        THEN [c |-> c, ret |-> Err("Can't pay zero amount invoice without amount")]
        ELSE
        LET amt_msat == IF fixed THEN invoice.amount_milli_satoshis[1] ELSE amount[1] * 1000
            p == pay(c, IF fixed THEN "pay_invoice" ELSE "pay_zero_value_invoice",
                     invoice, amt_msat, RETRY_ATTEMPTS, in.result)
        IN  IF p.result = "Invoice" THEN [c |-> p.c, ret |-> Err("Invalid invoice")]
            ELSE
            LET status == IF p.result = "Ok" THEN "Succeeded" ELSE "Failed"
                w == insert_payment(p.c, invoice.payment_hash,
                                    PaymentInfo(status, amt_msat, invoice.description, invoice),
                                    in.insertOk)
            IN  IF ~w.ok THEN [c |-> w.c, ret |-> Err("Failed to insert payment")]
                ELSE IF status = "Failed"
                THEN [c |-> w.c, ret |-> Err(<<"Failed to send payment",
                                               retryable_send_failure_to_string(p.result)>>)]
                ELSE [c |-> w.c, ret |-> Ok(Unit)]

\* pay_invoice recording a Failed payment for an invalid invoice
pay_invoice_InvoiceErrorRecorded(c, invoice, amount, in) ==
    LET fixed == invoice.amount_milli_satoshis # None
    IN  IF ~fixed /\ amount = None
        THEN [c |-> c, ret |-> Err("Can't pay zero amount invoice without amount")]
        ELSE
        LET amt_msat == IF fixed THEN invoice.amount_milli_satoshis[1] ELSE amount[1] * 1000
            p == pay(c, IF fixed THEN "pay_invoice" ELSE "pay_zero_value_invoice",
                     invoice, amt_msat, RETRY_ATTEMPTS, in.result)
            status == IF p.result = "Ok" THEN "Pending" ELSE "Failed"
            w == insert_payment(p.c, invoice.payment_hash,
                                PaymentInfo(status, amt_msat, invoice.description, invoice),
                                in.insertOk)
        IN  IF ~w.ok THEN [c |-> w.c, ret |-> Err("Failed to insert payment")]
            ELSE IF p.result = "Invoice" THEN [c |-> w.c, ret |-> Err("Invalid invoice")]
            ELSE IF status = "Failed"
            THEN [c |-> w.c, ret |-> Err(<<"Failed to send payment",
                                           retryable_send_failure_to_string(p.result)>>)]
            ELSE [c |-> w.c, ret |-> Ok(Unit)]

\* pay_invoice submitting the payment a second time after a send failure
pay_invoice_ResubmitOnFailure(c, invoice, amount, in) ==
    LET fixed == invoice.amount_milli_satoshis # None
    IN  IF ~fixed /\ amount = None
        THEN [c |-> c, ret |-> Err("Can't pay zero amount invoice without amount")]
        ELSE
        LET amt_msat == IF fixed THEN invoice.amount_milli_satoshis[1] ELSE amount[1] * 1000
            fn == IF fixed THEN "pay_invoice" ELSE "pay_zero_value_invoice"
            p1 == pay(c, fn, invoice, amt_msat, RETRY_ATTEMPTS, in.result)
            p == IF p1.result \in RetryableSendFailure
                 THEN pay(p1.c, fn, invoice, amt_msat, RETRY_ATTEMPTS, in.result)
                 ELSE p1
        IN  IF p.result = "Invoice" THEN [c |-> p.c, ret |-> Err("Invalid invoice")]
            ELSE
            LET status == IF p.result = "Ok" THEN "Pending" ELSE "Failed"
                w == insert_payment(p.c, invoice.payment_hash,
                                    PaymentInfo(status, amt_msat, invoice.description, invoice),
                                    in.insertOk)
            IN  IF ~w.ok THEN [c |-> w.c, ret |-> Err("Failed to insert payment")]
                ELSE IF status = "Failed"
                THEN [c |-> w.c, ret |-> Err(<<"Failed to send payment",
                                               retryable_send_failure_to_string(p.result)>>)]
                ELSE [c |-> w.c, ret |-> Ok(Unit)]

\* pay_invoice (invoice.rs:227-299); in.result is the answer of the payment
\* layer, in.insertOk the outcome of the Store write
pay_invoice(c, invoice, amount, in) ==
    LET fixed == invoice.amount_milli_satoshis # None
    IN  IF ~fixed /\ amount = None
        THEN [c |-> c, ret |-> Err("Can't pay zero amount invoice without amount")]
        ELSE
        LET amt_msat == IF fixed THEN invoice.amount_milli_satoshis[1] ELSE amount[1] * 1000
            p == pay(c, IF fixed THEN "pay_invoice" ELSE "pay_zero_value_invoice",
                     invoice, amt_msat, RETRY_ATTEMPTS, in.result)
        IN  IF p.result = "Invoice" THEN [c |-> p.c, ret |-> Err("Invalid invoice")]
            ELSE
            LET status == IF p.result = "Ok" THEN "Pending" ELSE "Failed"
                w == insert_payment(p.c, invoice.payment_hash,
                                    PaymentInfo(status, amt_msat, invoice.description, invoice),
                                    in.insertOk)
            IN  IF ~w.ok THEN [c |-> w.c, ret |-> Err("Failed to insert payment")]
                ELSE IF status = "Failed"
                THEN [c |-> w.c, ret |-> Err(<<"Failed to send payment",
                                               retryable_send_failure_to_string(p.result)>>)]
                ELSE [c |-> w.c, ret |-> Ok(Unit)]

\* ------------------------------------------------------ node: state, actions
NodeCtx ==
    [fake_channel_payments |-> fake_channel_payments, map_lock |-> map_lock,
     channels |-> channels, payments |-> payments, log |-> <<>>]

\* scids handed to calls of prepare_onboarding_payment that are in progress
BusyScids == {call.scid : call \in onboarding}

OnboardingIn(scid, ldk_config, upsertOk) ==
    [scid |-> scid, ldk_config |-> ldk_config, upsertOk |-> upsertOk]
OnboardingInputs ==
    {OnboardingIn(scid, ldk_config, upsertOk) :
        scid \in FreshScids(NodeCtx, BusyScids), ldk_config \in LdkConfigs,
        upsertOk \in BOOLEAN}

HintIn(list, ldk_config) == [channels |-> list, ldk_config |-> ldk_config]
HintInputs == {HintIn(list, ldk_config) : list \in ChannelLists, ldk_config \in LdkConfigs}

PayIn(result, insertOk) == [result |-> result, insertOk |-> insertOk]
\* the Store is not reached after an invoice-level error
PayInputs ==
    {in \in {PayIn(result, insertOk) : result \in PaymentResults, insertOk \in BOOLEAN} :
        in.result = "Invoice" => in.insertOk}

CommitNode(r) ==
    /\ fake_channel_payments' = r.c.fake_channel_payments
    /\ map_lock' = r.c.map_lock
    /\ channels' = r.c.channels
    /\ payments' = r.c.payments

PrepareOnboardingPayment ==
    \E liquidity_request \in LiquidityRequests, in \in OnboardingInputs :
        /\ CommitNode(prepare_onboarding_payment(NodeCtx, liquidity_request, in))
        /\ UNCHANGED <<onboarding, waiter, clientVars, coordinatorVars, dbVars, feeVars>>

PreparePaymentWithRouteHint ==
    \E target_node \in Traders, in \in HintInputs :
        /\ CommitNode(prepare_payment_with_route_hint(NodeCtx, target_node, in))
        /\ UNCHANGED <<onboarding, waiter, clientVars, coordinatorVars, dbVars, feeVars>>

\* the HTLC of an issued hop arrives: the interception handler takes the
\* LiquidityRequest out of the map
HtlcIntercepted ==
    \E intercept_scid \in DOMAIN fake_channel_payments \ BusyScids :
        /\ map_lock = None
        /\ fake_channel_payments' =
              [s \in DOMAIN fake_channel_payments \ {intercept_scid} |-> fake_channel_payments[s]]
        /\ UNCHANGED <<map_lock, channels, payments, onboarding, waiter, clientVars,
                       coordinatorVars, dbVars, feeVars>>

PayInvoice ==
    \E invoice \in Invoices, amount \in Amounts, in \in PayInputs :
        /\ CommitNode(pay_invoice(NodeCtx, invoice, amount, in))
        /\ UNCHANGED <<onboarding, waiter, clientVars, coordinatorVars, dbVars, feeVars>>

\* the payment layer's completion callback settles a pending payment
PaymentCompleted ==
    \E payment_hash \in DOMAIN payments, status \in {"Succeeded", "Failed"} :
        /\ payments[payment_hash].status = "Pending"
        /\ payments' = [payments EXCEPT ![payment_hash].status = status]
        /\ UNCHANGED <<fake_channel_payments, map_lock, channels, onboarding, waiter, clientVars, coordinatorVars, dbVars, feeVars>>

NextNode ==
    \/ PrepareOnboardingPayment
    \/ PreparePaymentWithRouteHint
    \/ HtlcIntercepted
    \/ PayInvoice
    \/ PaymentCompleted

SpecNode == Init /\ [][NextNode]_vars

\* ---------------------------------- prepare_onboarding_payment, concurrently
\* Calls of prepare_onboarding_payment run on several threads: each call
\* obtains its scid, takes the mutex of the map, inserts and drops the guard,
\* then persists the shadow channel and returns.
OnboardingStart ==
    \E liquidity_request \in LiquidityRequests, scid \in FreshScids(NodeCtx, BusyScids) :
        /\ onboarding' = onboarding \cup
              {[request |-> liquidity_request,
                scid |-> get_intercept_scid(NodeCtx, scid).scid, pc |-> "scid"]}
        /\ UNCHANGED <<fake_channel_payments, map_lock, channels, payments, waiter, clientVars, coordinatorVars, dbVars, feeVars>>

\* lock() returns once no other thread holds the mutex
OnboardingLock ==
    \E call \in onboarding :
        /\ call.pc = "scid"
        /\ map_lock = None
        /\ CommitNode([c |-> prepare_onboarding_payment_lock(NodeCtx, call.scid)])
        /\ onboarding' = (onboarding \ {call}) \cup {[call EXCEPT !.pc = "locked"]}
        /\ UNCHANGED <<waiter, clientVars, coordinatorVars, dbVars, feeVars>>

OnboardingInsert ==
    \E call \in onboarding :
        /\ call.pc = "locked"
        /\ CommitNode([c |-> prepare_onboarding_payment_insert(NodeCtx, call.request, call.scid)])
        /\ onboarding' = (onboarding \ {call}) \cup {[call EXCEPT !.pc = "inserted"]}
        /\ UNCHANGED <<waiter, clientVars, coordinatorVars, dbVars, feeVars>>

OnboardingFinish ==
    \E call \in onboarding, ldk_config \in LdkConfigs, upsertOk \in BOOLEAN :
        /\ call.pc = "inserted"
        /\ CommitNode(prepare_onboarding_payment_persist(
                          NodeCtx, call.request, call.scid,
                          OnboardingIn(call.scid, ldk_config, upsertOk)))
        /\ onboarding' = onboarding \ {call}
        /\ UNCHANGED <<waiter, clientVars, coordinatorVars, dbVars, feeVars>>

NextOnboarding ==
    \/ OnboardingStart
    \/ OnboardingLock
    \/ OnboardingInsert
    \/ OnboardingFinish
    \/ HtlcIntercepted

SpecOnboarding == Init /\ [][NextOnboarding]_vars

\* --------------------------------------------------------- wait_for_payment
\* The poll loop of wait_for_payment (invoice.rs:311-357), one step per await
\* point.  A call is the record
\*   [pc, expected_status, hash, deadline, elapsed, sleeps, reads, ret]
\* with pc "sleeping" (in tokio::time::sleep), "awake" (the sleep is over, the
\* Store read comes next, without an await in between) or "done"; elapsed is
\* the time in seconds since the call started.

\* invoice.rs:324, timeout.unwrap_or(Duration::from_secs(10))
DEFAULT_TIMEOUT_SECS == 10
\* invoice.rs:326, tokio::time::sleep(Duration::from_secs(1))
POLL_INTERVAL_SECS == 1

\* timeouts the callers pass, in seconds
Timeouts == {None, Some(0), Some(1), Some(2)}

\* Storage::get_payment(hash) -> Result<Option<(PaymentHash, PaymentInfo)>>
get_payment(c, payment_hash, ok) ==
    IF ~ok THEN Err("Can't access store to load payment")
    ELSE IF payment_hash \in DOMAIN c.payments THEN Ok(Some(c.payments[payment_hash]))
    ELSE Ok(None)

\* wait_for_payment entering the loop whatever the expected status is
wait_for_payment_start_NoAssert(expected_status, hash, timeout) ==
    [pc |-> "sleeping", expected_status |-> expected_status, hash |-> hash,
     deadline |-> IF timeout = None THEN DEFAULT_TIMEOUT_SECS ELSE timeout[1],
     elapsed |-> 0, sleeps |-> 0, reads |-> 0, ret |-> "none"]

\* wait_for_payment reading the Store before its first sleep
wait_for_payment_start_ReadsFirst(expected_status, hash, timeout) ==
    IF expected_status = "Pending"
    THEN [pc |-> "done", expected_status |-> expected_status, hash |-> hash,
          deadline |-> 0, elapsed |-> 0, sleeps |-> 0, reads |-> 0, ret |-> "panic"]
    ELSE [pc |-> "awake", expected_status |-> expected_status, hash |-> hash,
          deadline |-> IF timeout = None THEN DEFAULT_TIMEOUT_SECS ELSE timeout[1],
          elapsed |-> 0, sleeps |-> 0, reads |-> 0, ret |-> "none"]

\* lines 317-326: the assertion, then the timeout is armed and the loop starts
\* with its sleep
wait_for_payment_start(expected_status, hash, timeout) ==
    IF expected_status = "Pending"
    THEN [pc |-> "done", expected_status |-> expected_status, hash |-> hash,
          deadline |-> 0, elapsed |-> 0, sleeps |-> 0, reads |-> 0, ret |-> "panic"]
    ELSE [pc |-> "sleeping", expected_status |-> expected_status, hash |-> hash,
          deadline |-> IF timeout = None THEN DEFAULT_TIMEOUT_SECS ELSE timeout[1],
          elapsed |-> 0, sleeps |-> 0, reads |-> 0, ret |-> "none"]

\* the loop going on to the read without sleeping
wait_for_payment_sleep_Spin(w) ==
    [w EXCEPT !.pc = "awake"]

\* line 326: the sleep is over
wait_for_payment_sleep(w) ==
    [w EXCEPT !.pc = "awake", !.elapsed = @ + POLL_INTERVAL_SECS, !.sleeps = @ + 1]

\* the loop ending on any record it finds
wait_for_payment_check_AnyRecord(w, got) ==
    IF got.tag = "Ok" /\ got.val # None
    THEN [w EXCEPT !.pc = "done", !.reads = @ + 1, !.ret = "Ok"]
    ELSE [w EXCEPT !.pc = "sleeping", !.reads = @ + 1]

\* lines 328-353: what the loop does with the result of get_payment
wait_for_payment_check(w, got) ==
    IF got.tag = "Ok" /\ got.val # None /\ got.val[1].status = w.expected_status
    THEN [w EXCEPT !.pc = "done", !.reads = @ + 1, !.ret = "Ok"]
    ELSE [w EXCEPT !.pc = "sleeping", !.reads = @ + 1]

\* lines 324, 355-356: the timeout ends the loop at its await point
wait_for_payment_elapsed(w) ==
    [w EXCEPT !.pc = "done", !.elapsed = w.deadline, !.ret = "Elapsed"]

WaitStart ==
    \E expected_status \in HTLCStatus, hash \in PaymentHashes, timeout \in Timeouts :
        /\ waiter.pc \in {"idle", "done"}
        /\ waiter' = wait_for_payment_start(expected_status, hash, timeout)
        /\ UNCHANGED <<fake_channel_payments, map_lock, channels, payments, onboarding,
                       clientVars, coordinatorVars, dbVars, feeVars>>

\* the sleep ends before the deadline, or together with it
WaitSleep ==
    /\ waiter.pc = "sleeping"
    /\ waiter.elapsed + POLL_INTERVAL_SECS <= waiter.deadline
    /\ waiter' = wait_for_payment_sleep(waiter)
    /\ UNCHANGED <<fake_channel_payments, map_lock, channels, payments, onboarding,
                   clientVars, coordinatorVars, dbVars, feeVars>>

WaitRead ==
    \E ok \in BOOLEAN :
        /\ waiter.pc = "awake"
        /\ waiter' = wait_for_payment_check(waiter, get_payment(NodeCtx, waiter.hash, ok))
        /\ UNCHANGED <<fake_channel_payments, map_lock, channels, payments, onboarding,
                       clientVars, coordinatorVars, dbVars, feeVars>>

\* the deadline passes while the loop sleeps
WaitElapsed ==
    /\ waiter.pc = "sleeping"
    /\ waiter.elapsed + POLL_INTERVAL_SECS >= waiter.deadline
    /\ waiter' = wait_for_payment_elapsed(waiter)
    /\ UNCHANGED <<fake_channel_payments, map_lock, channels, payments, onboarding,
                   clientVars, coordinatorVars, dbVars, feeVars>>

WaitStep == WaitSleep \/ WaitRead \/ WaitElapsed

NextWait ==
    \/ PayInvoice
    \/ PaymentCompleted
    \/ WaitStart
    \/ WaitSleep
    \/ WaitRead
    \/ WaitElapsed

SpecWait == Init /\ [][NextWait]_vars

\* the runtime keeps polling the task: a step of the loop that stays possible
\* is taken
SpecWaitFair == SpecWait /\ WF_vars(WaitStep)

\* ------------------------------------------------- fees of a route hint hop
\* Both hop builders read the fee schedule from self.ldk_config, a RwLock, while
\* the node's settings can be updated.  ldk_config_rw is [value, readers]:
\* the configuration and the functions holding a read guard.  A call is
\*   [pc, base_msat, proportional_millionths]
\* with pc "guard" (read guard taken), "base" (base fee read) or "fees" (both
\* fees read, the hop built).

\* self.ldk_config.read() taking no guard
ldk_config_read_NoGuard(rw, fn) == rw

\* lines 151 and 202: self.ldk_config.read(), the guard lives in the binding
\* ldk_config until the function returns
ldk_config_read(rw, fn) == [rw EXCEPT !.readers = @ \cup {fn}]

\* the binding ldk_config goes out of scope
ldk_config_drop(rw, fn) == [rw EXCEPT !.readers = @ \ {fn}]

\* lines 157 and 208: ldk_config.channel_config.forwarding_fee_base_msat
read_forwarding_fee_base_msat(rw, call) ==
    [call EXCEPT !.pc = "base", !.base_msat = rw.value.forwarding_fee_base_msat]

\* lines 158-160 and 209-211: ...forwarding_fee_proportional_millionths
read_forwarding_fee_proportional_millionths(rw, call) ==
    [call EXCEPT !.pc = "fees",
                 !.proportional_millionths = rw.value.forwarding_fee_proportional_millionths]

\* fees: RoutingFees { base_msat, proportional_millionths } of the hop
RoutingFees(call) ==
    RouteHintHop(0, [forwarding_fee_base_msat |-> call.base_msat,
                     forwarding_fee_proportional_millionths |->
                         call.proportional_millionths]).fees

HopStart ==
    \E fn \in HopBuilders :
        /\ hop_build[fn].pc = "idle"
        /\ ldk_config_rw' = ldk_config_read(ldk_config_rw, fn)
        /\ hop_build' = [hop_build EXCEPT ![fn].pc = "guard"]
        /\ UNCHANGED <<issued, clientVars, coordinatorVars, nodeVars, dbVars, hintVars>>

HopReadBase ==
    \E fn \in HopBuilders :
        /\ hop_build[fn].pc = "guard"
        /\ hop_build' =
              [hop_build EXCEPT ![fn] = read_forwarding_fee_base_msat(ldk_config_rw, @)]
        /\ UNCHANGED <<ldk_config_rw, issued, clientVars, coordinatorVars, nodeVars, dbVars, hintVars>>

HopReadProportional ==
    \E fn \in HopBuilders :
        /\ hop_build[fn].pc = "base"
        /\ hop_build' =
              [hop_build EXCEPT
                  ![fn] = read_forwarding_fee_proportional_millionths(ldk_config_rw, @)]
        /\ UNCHANGED <<ldk_config_rw, issued, clientVars, coordinatorVars, nodeVars, dbVars, hintVars>>

\* the function returns its hop
HopReturn ==
    \E fn \in HopBuilders :
        /\ hop_build[fn].pc = "fees"
        /\ issued' = issued \cup {RoutingFees(hop_build[fn])}
        /\ ldk_config_rw' = ldk_config_drop(ldk_config_rw, fn)
        /\ hop_build' = [hop_build EXCEPT ![fn] = NotBuilding]
        /\ UNCHANGED <<clientVars, coordinatorVars, nodeVars, dbVars, hintVars>>

\* the settings are updated: the writer gets the lock when no read guard is out
UpdateLdkConfig ==
    \E value \in LdkConfigs :
        /\ ldk_config_rw.readers = {}
        /\ value # ldk_config_rw.value
        /\ ldk_config_rw' = [ldk_config_rw EXCEPT !.value = value]
        /\ UNCHANGED <<hop_build, issued, clientVars, coordinatorVars, nodeVars, dbVars, hintVars>>

NextFees ==
    \/ HopStart
    \/ HopReadBase
    \/ HopReadProportional
    \/ HopReturn
    \/ UpdateLdkConfig

SpecFees == Init /\ [][NextFees]_vars

\* ------------------------------------------- route hint for an open channel
\* list_channels is what channel_manager.list_channels() returns: the node's
\* channels in the order they were opened, each with its counterparty and, once
\* the funding transaction is confirmed, its short channel id.  route_hint is
\* the last call of prepare_payment_with_route_hint:
\*   [target_node, channels, ret]
\* with the channel list the call saw and what it returned.
MaxChannels == 2

\* a channel with node_id is opened; it has no short channel id yet
ChannelPending ==
    \E node_id \in Traders :
        /\ Len(list_channels) < MaxChannels
        /\ list_channels' = Append(list_channels, ChannelDetails(node_id, None))
        /\ UNCHANGED <<route_hint, ldk_config_rw, hop_build, issued,
                       clientVars, coordinatorVars, nodeVars, dbVars>>

\* the funding transaction of a channel is confirmed
ChannelConfirmed ==
    \E i \in 1..Len(list_channels) :
        /\ list_channels[i].short_channel_id = None
        /\ list_channels' = [list_channels EXCEPT ![i].short_channel_id = Some(6 + i)]
        /\ UNCHANGED <<route_hint, ldk_config_rw, hop_build, issued,
                       clientVars, coordinatorVars, nodeVars, dbVars>>

\* a call of prepare_payment_with_route_hint on the node's channels
PrepareRouteHint ==
    \E target_node \in Traders :
        LET r == prepare_payment_with_route_hint(
                     NodeCtx, target_node, HintIn(list_channels, ldk_config_rw.value))
        IN  /\ CommitNode(r)
            /\ route_hint' = [target_node |-> target_node, channels |-> list_channels,
                              ret |-> r.ret]
            /\ UNCHANGED <<onboarding, waiter, list_channels, ldk_config_rw, hop_build,
                           issued, clientVars, coordinatorVars, dbVars>>

NextRouteHint ==
    \/ ChannelPending
    \/ ChannelConfirmed
    \/ PrepareRouteHint
    \/ UpdateLdkConfig

SpecRouteHint == Init /\ [][NextRouteHint]_vars

\* ====================================================== client database types
\* ToSql / FromSql of the enums stored as SQLite text
\* (mobile/native/src/db/custom_types.rs).  An enum value is the record
\* [enum, variant]; its SQLite form is a string.
Variant(enum, variant) == [enum |-> enum, variant |-> variant]

DbOrderType == {Variant("OrderType", v) : v \in {"Market", "Limit"}}
DbOrderState ==
    {Variant("OrderState", v) :
        v \in {"Initial", "Rejected", "Open", "Failed", "Filled", "Filling"}}
DbContractSymbol == {Variant("ContractSymbol", "BtcUsd")}
DbDirection == {Variant("Direction", v) : v \in {"Long", "Short"}}

Unrecognized == Err("Unrecognized enum variant")

OrderType_to_sql(self) ==
    CASE self.variant = "Market" -> "market"
      [] self.variant = "Limit" -> "limit"

OrderType_from_sql(string) ==
    CASE string = "market" -> Ok(Variant("OrderType", "Market"))
      [] string = "limit" -> Ok(Variant("OrderType", "Limit"))
      [] OTHER -> Unrecognized

OrderState_to_sql(self) ==
    CASE self.variant = "Initial" -> "initial"
      [] self.variant = "Rejected" -> "rejected"
      [] self.variant = "Open" -> "open"
      [] self.variant = "Failed" -> "failed"
      [] self.variant = "Filled" -> "filled"
      [] self.variant = "Filling" -> "filling"

\* from_sql reading "filled" and "filling" as each other
OrderState_from_sql_Swapped(string) ==
    CASE string = "initial" -> Ok(Variant("OrderState", "Initial"))
      [] string = "rejected" -> Ok(Variant("OrderState", "Rejected"))
      [] string = "open" -> Ok(Variant("OrderState", "Open"))
      [] string = "failed" -> Ok(Variant("OrderState", "Failed"))
      [] string = "filled" -> Ok(Variant("OrderState", "Filling"))
      [] string = "filling" -> Ok(Variant("OrderState", "Filled"))
      [] OTHER -> Unrecognized

OrderState_from_sql(string) ==
    CASE string = "initial" -> Ok(Variant("OrderState", "Initial"))
      [] string = "rejected" -> Ok(Variant("OrderState", "Rejected"))
      [] string = "open" -> Ok(Variant("OrderState", "Open"))
      [] string = "failed" -> Ok(Variant("OrderState", "Failed"))
      [] string = "filled" -> Ok(Variant("OrderState", "Filled"))
      [] string = "filling" -> Ok(Variant("OrderState", "Filling"))
      [] OTHER -> Unrecognized

ContractSymbol_to_sql(self) ==
    CASE self.variant = "BtcUsd" -> "BtcUsd"

ContractSymbol_from_sql(string) ==
    CASE string = "BtcUsd" -> Ok(Variant("ContractSymbol", "BtcUsd"))
      [] OTHER -> Unrecognized

Direction_to_sql(self) ==
    CASE self.variant = "Long" -> "Long"
      [] self.variant = "Short" -> "Short"

Direction_from_sql(string) ==
    CASE string = "Long" -> Ok(Variant("Direction", "Long"))
      [] string = "Short" -> Ok(Variant("Direction", "Short"))
      [] OTHER -> Unrecognized

\* the struct of the round-trip test (custom_types.rs:297-305) and its table
SampleStruct(order_type, order_state, contract_symbol, direction) ==
    [order_type |-> order_type, order_state |-> order_state,
     contract_symbol |-> contract_symbol, direction |-> direction]
SampleStructs ==
    [order_type : DbOrderType, order_state : DbOrderState,
     contract_symbol : DbContractSymbol, direction : DbDirection]
RowIds == {"1"}

\* text that is the form of no variant: a variant's name in another case, the
\* empty text
ForeignTexts == {"Filled", "Market", "long", "btcusd", "FILLING", ""}
\* what a column of a stored row can hold
TextsOf(to_sql(_), values) == {to_sql(v) : v \in values} \cup {"Filled"}
Rows ==
    [order_type : TextsOf(OrderType_to_sql, DbOrderType),
     order_state : TextsOf(OrderState_to_sql, DbOrderState),
     contract_symbol : TextsOf(ContractSymbol_to_sql, DbContractSymbol),
     direction : TextsOf(Direction_to_sql, DbDirection)]

\* Insertable: one ToSql per column
insert_into(s) ==
    [order_type |-> OrderType_to_sql(s.order_type),
     order_state |-> OrderState_to_sql(s.order_state),
     contract_symbol |-> ContractSymbol_to_sql(s.contract_symbol),
     direction |-> Direction_to_sql(s.direction)]

\* Queryable: one FromSql per column, the first error ends the load
load(row) ==
    LET order_type == OrderType_from_sql(row.order_type)
        order_state == OrderState_from_sql(row.order_state)
        contract_symbol == ContractSymbol_from_sql(row.contract_symbol)
        direction == Direction_from_sql(row.direction)
    IN  IF order_type.tag = "Err" THEN order_type
        ELSE IF order_state.tag = "Err" THEN order_state
        ELSE IF contract_symbol.tag = "Err" THEN contract_symbol
        ELSE IF direction.tag = "Err" THEN direction
        ELSE Ok(SampleStruct(order_type.val, order_state.val,
                             contract_symbol.val, direction.val))

InsertSampleStruct ==
    \E id \in RowIds, s \in SampleStructs :
        /\ customstruct' = (id :> insert_into(s)) @@ customstruct
        /\ UNCHANGED <<loaded, clientVars, coordinatorVars, nodeVars, feeVars>>

\* the table is written by something else than these ToSql implementations
WriteRow ==
    \E id \in RowIds, row \in Rows :
        /\ customstruct' = (id :> row) @@ customstruct
        /\ UNCHANGED <<loaded, clientVars, coordinatorVars, nodeVars, feeVars>>

LoadSampleStruct ==
    \E id \in DOMAIN customstruct :
        /\ loaded' = Some(load(customstruct[id]))
        /\ UNCHANGED <<customstruct, clientVars, coordinatorVars, nodeVars, feeVars>>

NextCustomTypes ==
    \/ InsertSampleStruct
    \/ WriteRow
    \/ LoadSampleStruct

SpecCustomTypes == Init /\ [][NextCustomTypes]_vars

\* ================================================================ claims
InFilling == OrdersInState(orders, {"Filling"})
NonTerminal == OrdersInState(orders, {"Initial", "Open", "Filling"})
FnsOf(log) == [i \in 1..Len(log) |-> log[i].fn]

\* C1: at any time at most one order of the trader is in state Filling.
C1_AtMostOneFilling == Cardinality(InFilling) <= 1

\* C2: when the sweep runs concurrently with order_filling / order_filled on the
\* same order, the transition that commits first wins: a pass of the sweep does
\* not overwrite the state of an order that has reached a terminal state since
\* the sweep loaded it, and order_filling / order_filled do not overwrite the
\* Failed(TimedOut) the sweep committed.
C2_FirstCommitWins ==
    [][\A id \in DOMAIN orders :
          (/\ IsTerminal(orders[id].state)
           /\ \/ sweep.pc = "loop" /\ sweep' # sweep
              \/ /\ orders[id].state = Failed("TimedOut")
                 /\ orders'[id].state.tag \in {"Filling", "Filled"})
          => orders'[id].state = orders[id].state]_vars

C4_RejectedOrderMarkedFailed ==
    \A id \in OrderIds \ DOMAIN orders, in \in SubmitInputs :
        LET r == submit_order(Ctx, NewOrder(id, clock), in)
        IN  ~in.acceptable =>
                /\ r.ret.tag = "Err"
                /\ id \notin r.c.posted
                /\ id \in DOMAIN r.c.orders
                /\ r.c.orders[id].state = Failed("OrderNotAcceptable")

C6_Accepted ==
    \A id \in OrderIds \ DOMAIN orders, in \in SubmitInputs :
        LET r == submit_order(Ctx, NewOrder(id, clock), in)
        IN  /\ (in.acceptable /\ in.insertOk /\ in.postOk) =>
                /\ id \in r.c.posted
                /\ \A o \in DOMAIN orders : r.c.orders[o] = orders[o]
                /\ (in.w /\ in.pos) =>
                      /\ r.ret.tag = "Ok" /\ r.ret.val = id
                      /\ r.c.orders[id].state = Open
                      /\ r.c.position = "Closing"
                      /\ FnsOf(r.c.log) =
                            <<"get_position_matching_order", "insert_order", "post_new_order",
                              "update_order_state", "publish",
                              "update_position_after_order_submitted">>
                      /\ r.c.log[2].state = Initial
                /\ ~in.w =>
                      /\ r.ret.tag = "Err"
                      /\ r.c.orders[id].state = Initial
                      /\ r.c.position = position
                /\ (in.w /\ ~in.pos) =>
                      /\ r.ret.tag = "Err"
                      /\ r.c.orders[id].state = Open
                      /\ r.c.position = position
            /\ r.ret.tag = "Ok" => in.acceptable /\ in.insertOk /\ in.postOk

C6_Witness ==
    /\ position = "Closing"
    /\ \E id \in DOMAIN orders : orders[id].state = Open /\ id \in posted

\* C7: order_filled() moves the order in Filling(p) to Filled(p) with the same
\* execution price p, changes no other order and returns the filled order.
\* (When the Store read or write fails, or no order is in Filling, it returns an
\* error and changes no order.)
C7_OrderFilled ==
    \A in \in FilledInputs :
        LET r == order_filled(Ctx, in)
        IN  /\ DOMAIN r.c.orders = DOMAIN orders
            /\ r.c.position = position
            /\ IF in.readOk /\ InFilling # {} /\ in.w
               THEN \E id \in InFilling :
                       /\ r.ret.tag = "Ok"
                       /\ r.ret.val = r.c.orders[id]
                       /\ r.c.orders[id].state = Filled(orders[id].state.execution_price)
                       /\ r.c.orders[id].creation_timestamp = orders[id].creation_timestamp
                       /\ \A o \in DOMAIN orders \ {id} : r.c.orders[o] = orders[o]
               ELSE r.ret.tag = "Err" /\ r.c.orders = orders

C7_Witness ==
    \E id \in DOMAIN orders, p \in Prices \ {0} :
        /\ orders[id].state = Filled(p)
        /\ \E o \in DOMAIN orders \ {id} : orders[o].state.tag # "Filled"

\* C8: calling order_failed twice with the same explicit order id and reason
\* yields the same stored state as calling it once: after the first call the order
\* is Failed(reason) and the position Open, and the second call changes neither
\* the orders nor the position.
C8_Idempotent ==
    \A id \in DOMAIN orders, reason \in FailureReason :
        \A in1, in2 \in FailedInputs(Some(id)) :
            LET r1 == order_failed(Ctx, Some(id), reason, in1)
                r2 == order_failed([r1.c EXCEPT !.log = <<>>], Some(id), reason, in2)
            IN  r1.ret.tag = "Ok" =>
                    /\ r1.c.orders[id].state = Failed(reason)
                    /\ r1.c.position = "Open"
                    /\ \A o \in DOMAIN orders \ {id} : r1.c.orders[o] = orders[o]
                    /\ r2.c.orders = r1.c.orders
                    /\ r2.c.position = r1.c.position
                    /\ r2.c.posted = r1.c.posted
                    /\ (in2.w /\ in2.pos) => r2.ret.tag = "Ok"

C8_Witness ==
    /\ position = "Open"
    /\ \E id \in DOMAIN orders : orders[id].state = Failed("TradeRequest")

\* C9, as stated: every invocation of order_failed, for any reason and any cause,
\* has reset the position state to Open when it returns.
OrderIdArgs == {None} \cup {Some(id) : id \in OrderIds}

Wrote(log) == \E i \in 1..Len(log) : log[i].fn = "update_order_state" /\ log[i].ok
ResetCalls(log) == {i \in 1..Len(log) : log[i].fn = "set_position_state"}

C10_Staleness ==
    \A now \in Times :
        \A in \in SweepInputs(now) :
            LET r == check_open_orders(Ctx, now, in)
                allOk == in.readOk /\ \A id \in OrderIds : in.ws[id] /\ in.poss[id]
            IN  /\ DOMAIN r.c.orders = DOMAIN orders
                /\ \A id \in DOMAIN orders :
                      IF id \in NonTerminal /\ now > orders[id].creation_timestamp + 5
                      THEN /\ allOk => r.c.orders[id].state = Failed("TimedOut")
                           /\ r.c.orders[id].state \in {orders[id].state, Failed("TimedOut")}
                           /\ r.c.orders[id].creation_timestamp = orders[id].creation_timestamp
                      ELSE r.c.orders[id] = orders[id]
                /\ allOk => r.ret.tag = "Ok"

C10_Witness ==
    /\ clock = ORDER_OUTDATED_AFTER + 1
    /\ \E a, b \in DOMAIN orders :
          /\ orders[a].creation_timestamp = 0
          /\ orders[a].state = Failed("TimedOut")
          /\ orders[b].creation_timestamp = 1
          /\ b \in NonTerminal

\* C11: for every order state transition the Store write precedes the UI
\* notification: in every run of a handler, a notification carrying state s for
\* order o is published directly after a successful Store write of s to o, from
\* the order that write returned, and no notification follows a Store write that
\* failed.
HandlerLogs ==
    {submit_order(Ctx, NewOrder(id, clock), in).c.log :
        id \in OrderIds \ DOMAIN orders, in \in SubmitInputs}
    \cup {order_filling(Ctx, id, p, in).c.log :
        id \in OrderIds, p \in Prices, in \in FillingInputs}
    \cup {order_filled(Ctx, in).c.log : in \in FilledInputs}
    \cup UNION {{order_failed(Ctx, order_id, reason, in).c.log :
                    reason \in FailureReason, in \in FailedInputs(order_id)} :
                order_id \in OrderIdArgs}
    \cup {check_open_orders(Ctx, clock, in).c.log : in \in SweepInputs(clock)}

WriteBeforePublish(log) ==
    \A i \in 1..Len(log) :
        /\ log[i].fn = "publish" =>
              /\ i > 1
              /\ log[i - 1] = Call("update_order_state", log[i].id, log[i].state, TRUE)
        /\ (log[i].fn = "update_order_state" /\ ~log[i].ok) =>
              \A j \in (i + 1)..Len(log) :
                  log[j].fn = "publish" => \E k \in (i + 1)..(j - 1) :
                      log[k] = Call("update_order_state", log[j].id, log[j].state, TRUE)

C11_WriteBeforePublish == \A log \in HandlerLogs : WriteBeforePublish(log)

\* an accepted order whose write of Open failed (no notification) next to an
\* order whose fill was written and published
C11_Witness ==
    /\ \E id \in DOMAIN orders : orders[id].state = Initial /\ id \in posted
    /\ \E id \in DOMAIN orders : orders[id].state.tag = "Filled"

\* the sends of a run of process_pending_match, and a trader's Matched order
SendCalls(log) == {i \in 1..Len(log) : log[i].fn = "send"}
MatchedOrder(trader_id) ==
    get_by_trader_id_and_state(CoordinatorCtx, trader_id, "Matched", TRUE).found

\* C12: building a FilledWith from an empty set of match rows fails and yields
\* no partial result (from any other set of rows it succeeds); so a reconnect of
\* a trader whose Matched order has no match row returns an error to its task,
\* attempts no send and leaves the outbound channel as it was; a step that ends
\* a task ends that task only and leaves the monitor running.
C12_EmptyMatchesFail ==
    /\ [](/\ get_filled_with_from_matches(<<>>, Network).tag = "Err"
          /\ \A trader_id \in DOMAIN coordinator_orders :
                LET rows == RowsOf(matches, coordinator_orders[trader_id].id)
                IN  rows # <<>> => get_filled_with_from_matches(rows, Network).tag = "Ok"
          /\ \A trader_id \in Traders, in \in NotifierInputs :
                LET r == process_pending_match(CoordinatorCtx, trader_id, Network, in)
                    order == MatchedOrder(trader_id)
                IN  (/\ order # None
                     /\ RowsOf(matches, order[1].id) = <<>>
                     /\ in.queryOk /\ in.matchesOk) =>
                        /\ r.ret.tag = "Err"
                        /\ SendCalls(r.c.log) = {}
                        /\ r.c.notifier = notifier
                        /\ r.c.orders = coordinator_orders
                        /\ r.c.matches = matches)
    /\ [][tasks' # tasks /\ tasks' \subseteq tasks =>
              /\ Cardinality(tasks \ tasks') = 1
              /\ monitor' = monitor
              /\ user_feed' = user_feed]_vars

C12_Witness ==
    \E trader_id \in tasks :
        /\ monitor = "running"
        /\ MatchedOrder(trader_id) # None
        /\ RowsOf(matches, MatchedOrder(trader_id)[1].id) = <<>>
        /\ tasks # {trader_id}

\* C13, as stated: on a reconnect of trader t whose queries succeed, nothing is
\* sent when t has no order in state Matched, and otherwise exactly one message
\* addressed to t is handed to the outbound channel.
C13_ExactlyOneMessage ==
    \A trader_id \in Traders, in \in NotifierInputs :
        LET r == process_pending_match(CoordinatorCtx, trader_id, Network, in)
        IN  (in.queryOk /\ in.matchesOk) =>
                Cardinality(SendCalls(r.c.log)) = IF MatchedOrder(trader_id) = None THEN 0 ELSE 1

\* C13, amended: on a reconnect of trader t the notifier sends nothing when t has
\* no order in state Matched, when that order has no match row or when one of the
\* two queries fails; otherwise it hands exactly one message addressed to t to
\* the outbound channel: Match(filled_with) for order reason Manual and
\* AsyncMatch{order, filled_with} with that same order for Expired, where
\* filled_with names the order and has exactly one match per stored match row of
\* it, in the order of the rows and with the row's values.
C13_OneMessagePerMatchedOrder ==
    \A trader_id \in Traders, in \in NotifierInputs :
        LET r == process_pending_match(CoordinatorCtx, trader_id, Network, in)
            order == MatchedOrder(trader_id)
            rows == IF order = None THEN <<>> ELSE RowsOf(matches, order[1].id)
            sends == SendCalls(r.c.log)
        IN  IF order = None \/ rows = <<>> \/ ~in.queryOk \/ ~in.matchesOk
            THEN sends = {} /\ r.c.notifier = notifier
            ELSE /\ Cardinality(sends) = 1
                 /\ \A i \in sends :
                       LET message == r.c.log[i].state
                           filled_with == message.filled_with
                       IN  /\ r.c.log[i].id = trader_id
                           /\ message.tag = IF order[1].order_reason = "Manual"
                                            THEN "Match" ELSE "AsyncMatch"
                           /\ message.tag = "AsyncMatch" => message.order = order[1]
                           /\ order[1] = coordinator_orders[trader_id]
                           /\ filled_with.order_id = Some(order[1].id)
                           /\ Len(filled_with.matches) = Len(rows)
                           /\ \A k \in 1..Len(rows) :
                                 /\ filled_with.matches[k].id = rows[k].id
                                 /\ filled_with.matches[k].order_id = order[1].id
                                 /\ filled_with.matches[k].quantity = rows[k].quantity
                                 /\ filled_with.matches[k].pubkey = rows[k].match_trader_id
                                 /\ filled_with.matches[k].execution_price
                                        = rows[k].execution_price
                           /\ r.c.notifier =
                                 IF in.sendOk
                                 THEN Append(notifier, TraderMessage(trader_id, message))
                                 ELSE notifier
                 /\ r.ret.tag = "Ok"

\* an AsyncMatch for an Expired order with two match rows is in the channel
C13_Witness ==
    /\ Len(notifier) = 1
    /\ notifier[1].message.tag = "AsyncMatch"
    /\ Len(notifier[1].message.filled_with.matches) = MaxMatches
    /\ notifier[1].trader_id \notin tasks

\* C14: a failing notification for one trader does not stop the notifications of
\* the others: whatever failed while earlier reconnect events were handled, the
\* monitor has not ended and still receives reconnect events.
C14_MonitorKeepsReceiving == monitor = "running"

\* C15: for each reconnect event the notifier attempts delivery at most once:
\* a run of the notification task calls send at most once, and when that send
\* fails the task returns without an error and nothing has reached the channel.
C15_AtMostOneSend ==
    \A trader_id \in Traders, in \in NotifierInputs :
        LET r == process_pending_match(CoordinatorCtx, trader_id, Network, in)
            sends == SendCalls(r.c.log)
        IN  /\ Cardinality(sends) <= 1
            /\ \A i \in sends : ~r.c.log[i].ok =>
                  /\ r.ret.tag = "Ok"
                  /\ r.c.notifier = notifier
                  /\ i = Len(r.c.log)

\* a task is about to notify a trader whose Manual order is Matched with a row,
\* and the monitor has received every event
C15_Witness ==
    \E trader_id \in tasks :
        /\ notifier = <<>>
        /\ user_feed = <<>>
        /\ MatchedOrder(trader_id) # None
        /\ MatchedOrder(trader_id)[1].order_reason = "Manual"
        /\ RowsOf(matches, MatchedOrder(trader_id)[1].id) # <<>>

\* C16: after prepare_onboarding_payment(request) has returned hop H, the map
\* holds under key H.short_channel_id exactly the request passed in, and every
\* other entry as before; prepare_payment_with_route_hint and pay_invoice leave
\* the map alone; and in every step an entry of the map either stays unchanged
\* under its key or is taken out by the interception of its HTLC, which removes
\* that one entry and nothing else.
C16_RequestRoundTrip ==
    /\ [](/\ \A liquidity_request \in LiquidityRequests, in \in OnboardingInputs :
                LET r == prepare_onboarding_payment(NodeCtx, liquidity_request, in)
                IN  r.ret.tag = "Ok" =>
                        LET scid == r.ret.val.short_channel_id
                        IN  /\ scid = in.scid
                            /\ DOMAIN r.c.fake_channel_payments
                                  = DOMAIN fake_channel_payments \cup {scid}
                            /\ r.c.fake_channel_payments[scid] = liquidity_request
                            /\ \A s \in DOMAIN fake_channel_payments :
                                  r.c.fake_channel_payments[s] = fake_channel_payments[s]
          /\ \A target_node \in Traders, in \in HintInputs :
                prepare_payment_with_route_hint(NodeCtx, target_node, in).c.fake_channel_payments
                    = fake_channel_payments
          /\ \A invoice \in Invoices, amount \in Amounts, in \in PayInputs :
                pay_invoice(NodeCtx, invoice, amount, in).c.fake_channel_payments
                    = fake_channel_payments)
    /\ [][\A s \in DOMAIN fake_channel_payments :
              \/ /\ s \in DOMAIN fake_channel_payments'
                 /\ fake_channel_payments'[s] = fake_channel_payments[s]
              \/ /\ DOMAIN fake_channel_payments' = DOMAIN fake_channel_payments \ {s}
                 /\ \A o \in DOMAIN fake_channel_payments' :
                       fake_channel_payments'[o] = fake_channel_payments[o]
                 /\ UNCHANGED <<channels, payments>>]_vars

\* two requests are registered and payments were made meanwhile
C16_Witness ==
    /\ DOMAIN fake_channel_payments = Scids
    /\ \E s, o \in Scids : fake_channel_payments[s] # fake_channel_payments[o]
    /\ DOMAIN payments = PaymentHashes

\* C17: when prepare_onboarding_payment is called twice for the same trader
\* before either HTLC arrives, the two calls get distinct intercept scids and
\* the map holds both LiquidityRequests at the same time.  Concurrently: calls in
\* progress hold pairwise distinct scids, none of them a key of the map before
\* its insert, and after its insert each call's request is in the map under its
\* scid.  Sequentially: two successful calls return hops with distinct scids and
\* add two entries, the first untouched by the second.
C17_TwoRequestsCoexist ==
    /\ \A call \in onboarding :
          IF call.pc = "inserted"
          THEN /\ call.scid \in DOMAIN fake_channel_payments
               /\ fake_channel_payments[call.scid] = call.request
          ELSE call.scid \notin DOMAIN fake_channel_payments
    /\ \A c1, c2 \in onboarding : c1 # c2 => c1.scid # c2.scid
    /\ \A q1, q2 \in LiquidityRequests, in1 \in OnboardingInputs :
          LET r1 == prepare_onboarding_payment(NodeCtx, q1, in1)
          IN  \A scid2 \in FreshScids(r1.c, BusyScids), ldk_config \in LdkConfigs :
                 LET r2 == prepare_onboarding_payment(
                               r1.c, q2, OnboardingIn(scid2, ldk_config, TRUE))
                 IN  (q1.trader_id = q2.trader_id /\ r1.ret.tag = "Ok") =>
                        /\ r2.ret.tag = "Ok"
                        /\ r1.ret.val.short_channel_id # r2.ret.val.short_channel_id
                        /\ {r1.ret.val.short_channel_id, r2.ret.val.short_channel_id}
                              \subseteq DOMAIN r2.c.fake_channel_payments
                        /\ r2.c.fake_channel_payments[r1.ret.val.short_channel_id] = q1
                        /\ r2.c.fake_channel_payments[r2.ret.val.short_channel_id] = q2
                        /\ Cardinality(DOMAIN r2.c.fake_channel_payments)
                              = Cardinality(DOMAIN fake_channel_payments) + 2

\* both calls for one trader have returned; both requests are in the map
C17_Witness ==
    /\ onboarding = {}
    /\ DOMAIN channels = UserChannelIds
    /\ \E s, o \in DOMAIN fake_channel_payments :
          /\ s # o
          /\ fake_channel_payments[s].trader_id = fake_channel_payments[o].trader_id
          /\ fake_channel_payments[s].user_channel_id # fake_channel_payments[o].user_channel_id

\* C18: pay_invoice with a zero-amount invoice and no amount fails with the
\* validation error, calls neither the payment layer nor the Store, and leaves
\* the payments (and everything else) unchanged.
C18_ZeroAmountRejected ==
    \A invoice \in Invoices, in \in PayInputs :
        LET r == pay_invoice(NodeCtx, invoice, None, in)
        IN  invoice.amount_milli_satoshis = None =>
                /\ r.ret.tag = "Err"
                /\ r.ret.val = "Can't pay zero amount invoice without amount"
                /\ r.c.log = <<>>
                /\ r.c.payments = payments
                /\ r.c.channels = channels
                /\ r.c.fake_channel_payments = fake_channel_payments

C18_Witness ==
    /\ "h1" \in DOMAIN payments
    /\ "h2" \notin DOMAIN payments

\* the amount pay_invoice pays: the invoice's, else the given one in msat
AmtMsat(invoice, amount) ==
    IF invoice.amount_milli_satoshis # None THEN invoice.amount_milli_satoshis[1]
    ELSE amount[1] * 1000
Payable(invoice, amount) == invoice.amount_milli_satoshis # None \/ amount # None

\* C19: when pay_invoice reports a send-level error (route not found, duplicate
\* payment, payment expired), a PaymentInfo with status Failed is in the Store
\* under the invoice's payment hash: the Store write is the last call before
\* the error is returned.  (When that write fails, the Store's error is returned
\* instead and the payments are unchanged.)
C19_FailedRecordedBeforeError ==
    \A invoice \in Invoices, amount \in Amounts, in \in PayInputs :
        LET r == pay_invoice(NodeCtx, invoice, amount, in)
            n == Len(r.c.log)
        IN  (Payable(invoice, amount) /\ in.result \in RetryableSendFailure) =>
                /\ r.ret.tag = "Err"
                /\ IF in.insertOk
                   THEN /\ r.ret.val = <<"Failed to send payment",
                                         retryable_send_failure_to_string(in.result)>>
                        /\ invoice.payment_hash \in DOMAIN r.c.payments
                        /\ r.c.payments[invoice.payment_hash].status = "Failed"
                        /\ r.c.log[n] = Call("insert_payment", invoice.payment_hash,
                                             [tag |-> "Failed"], TRUE)
                   ELSE /\ r.ret.val = "Failed to insert payment"
                        /\ r.c.payments = payments

C19_Witness ==
    /\ "h1" \in DOMAIN payments
    /\ payments["h1"].status = "Failed"
    /\ "h2" \notin DOMAIN payments

\* C20: when the payment layer accepts the payment, pay_invoice records a
\* PaymentInfo with status Pending, flow Outbound and the amount paid under the
\* invoice's payment hash and returns success (unless the Store write fails,
\* which is returned); no call of pay_invoice writes status Succeeded.
C20_AcceptedIsPending ==
    \A invoice \in Invoices, amount \in Amounts, in \in PayInputs :
        LET r == pay_invoice(NodeCtx, invoice, amount, in)
            h == invoice.payment_hash
        IN  /\ (Payable(invoice, amount) /\ in.result = "Ok") =>
                IF in.insertOk
                THEN /\ r.ret.tag = "Ok"
                     /\ r.c.payments[h].status = "Pending"
                     /\ r.c.payments[h].flow = "Outbound"
                     /\ r.c.payments[h].amt_msat = Some(AmtMsat(invoice, amount))
                     /\ r.c.payments[h].preimage = None
                     /\ \A o \in DOMAIN payments \ {h} : r.c.payments[o] = payments[o]
                ELSE r.ret.tag = "Err" /\ r.c.payments = payments
            /\ r.ret.tag = "Ok" => Payable(invoice, amount) /\ in.result = "Ok"
            /\ \A i \in 1..Len(r.c.log) :
                  r.c.log[i].fn = "insert_payment" => r.c.log[i].state.tag # "Succeeded"
            /\ \A o \in DOMAIN r.c.payments :
                  r.c.payments[o].status = "Succeeded" =>
                      o \in DOMAIN payments /\ payments[o] = r.c.payments[o]

C20_Witness ==
    /\ "h2" \in DOMAIN payments
    /\ payments["h2"].status = "Pending"
    /\ payments["h2"].amt_msat = Some(MaxAmount * 1000)
    /\ payments["h2"].flow = "Outbound"

\* C21: when the payment layer answers with an invoice-level error, pay_invoice
\* returns that error, makes no call to the Store after the submission, and
\* leaves every PaymentInfo in the Store as it was (none inserted, none changed).
C21_InvoiceErrorNotPersisted ==
    \A invoice \in Invoices, amount \in Amounts, in \in PayInputs :
        LET r == pay_invoice(NodeCtx, invoice, amount, in)
        IN  (Payable(invoice, amount) /\ in.result = "Invoice") =>
                /\ r.ret = Err("Invalid invoice")
                /\ Len(r.c.log) = 1
                /\ r.c.log[1].fn \in {"pay_invoice", "pay_zero_value_invoice"}
                /\ r.c.payments = payments
                /\ r.c.channels = channels
                /\ r.c.fake_channel_payments = fake_channel_payments

\* a payment is settled and the other invoice has no record: an invalid-invoice
\* answer for either leaves both as they are
C21_Witness ==
    /\ "h2" \in DOMAIN payments
    /\ payments["h2"].status = "Succeeded"
    /\ "h1" \notin DOMAIN payments

\* C22: wait_for_payment returns success only from a read of the Store that
\* found a PaymentInfo under the given hash whose status is the expected one
\* (Succeeded or Failed): a read that fails, finds no record or finds another
\* status leaves the call waiting; and no step of wait_for_payment changes the
\* Store or the pending-intents map.
C22_SuccessOnlyOnMatchingRead ==
    /\ [](/\ waiter.ret = "Ok" =>
                /\ waiter.pc = "done"
                /\ waiter.expected_status \in {"Succeeded", "Failed"}
                /\ waiter.reads >= 1
          /\ waiter.pc = "awake" =>
                \A ok \in BOOLEAN :
                    LET w == wait_for_payment_check(
                                 waiter, get_payment(NodeCtx, waiter.hash, ok))
                    IN  IF /\ ok
                           /\ waiter.hash \in DOMAIN payments
                           /\ payments[waiter.hash].status = waiter.expected_status
                        THEN w.pc = "done" /\ w.ret = "Ok"
                        ELSE w.pc = "sleeping" /\ w.ret = "none")
    /\ [][waiter' # waiter =>
             /\ UNCHANGED <<payments, channels, fake_channel_payments>>
             /\ (waiter'.ret = "Ok" /\ waiter.ret # "Ok") =>
                    /\ waiter.pc = "awake"
                    /\ waiter.hash \in DOMAIN payments
                    /\ payments[waiter.hash].status = waiter.expected_status]_vars

\* the call succeeded on its second read, waiting for Failed
C22_Witness ==
    /\ waiter.pc = "done"
    /\ waiter.ret = "Ok"
    /\ waiter.expected_status = "Failed"
    /\ waiter.reads = 2
    /\ payments[waiter.hash].status = "Failed"

\* C23: the poll loop of wait_for_payment is bounded and does not spin.  Every
\* read of the Store comes after a sleep of one second of its own, the call
\* never runs past its timeout (the given one, 10 seconds when none is given),
\* a timeout result is returned at that time, and every call that has entered
\* the loop returns, also when all its reads fail or find no record.
C23_BoundedPollLoop ==
    /\ [](/\ waiter.elapsed <= waiter.deadline
          /\ waiter.reads <= waiter.deadline
          /\ waiter.pc = "sleeping" => waiter.sleeps = waiter.reads
          /\ waiter.pc = "awake" => waiter.sleeps = waiter.reads + 1
          /\ waiter.pc = "done" => waiter.sleeps = waiter.reads
          /\ waiter.ret # "Elapsed" => waiter.elapsed = waiter.sleeps * POLL_INTERVAL_SECS
          /\ waiter.ret = "Elapsed" =>
                /\ waiter.elapsed = waiter.deadline
                /\ waiter.sleeps * POLL_INTERVAL_SECS
                       \in {waiter.deadline - POLL_INTERVAL_SECS, waiter.deadline}
          /\ \A expected_status \in {"Succeeded", "Failed"}, hash \in PaymentHashes,
                timeout \in Timeouts :
                LET w == wait_for_payment_start(expected_status, hash, timeout)
                IN  /\ w.pc = "sleeping" /\ w.reads = 0
                    /\ w.deadline = IF timeout = None THEN 10 ELSE timeout[1])
    /\ [][waiter'.reads > waiter.reads =>
             /\ waiter.pc = "awake"
             /\ waiter'.reads = waiter.reads + 1]_vars
    /\ (waiter.pc \in {"sleeping", "awake"} ~> waiter.pc = "done")

\* a call without timeout ended with the timeout result after 10 seconds of
\* reads that found no record or failed
C23_Witness ==
    /\ waiter.pc = "done"
    /\ waiter.ret = "Elapsed"
    /\ waiter.deadline = DEFAULT_TIMEOUT_SECS
    /\ waiter.elapsed = 10
    /\ waiter.reads >= 9
    /\ waiter.hash \notin DOMAIN payments

\* C24: wait_for_payment with expected status Pending is rejected at once, by
\* the failed assertion: the call is over with no sleep, no read of the Store
\* and no time spent, whatever the hash, the timeout and the Store's content.
C24_PendingRejectedAtOnce ==
    /\ \A hash \in PaymentHashes, timeout \in Timeouts :
          LET w == wait_for_payment_start("Pending", hash, timeout)
          IN  /\ w.pc = "done"
              /\ w.ret = "panic"
              /\ w.sleeps = 0 /\ w.reads = 0 /\ w.elapsed = 0
    /\ (waiter.pc # "idle" /\ waiter.expected_status = "Pending") =>
          /\ waiter.pc = "done"
          /\ waiter.ret = "panic"
          /\ waiter.sleeps = 0 /\ waiter.reads = 0 /\ waiter.elapsed = 0
    /\ waiter.ret = "panic" => waiter.expected_status = "Pending"

\* the call was rejected although the Store holds a Pending record under the
\* hash
C24_Witness ==
    /\ waiter.ret = "panic"
    /\ waiter.expected_status = "Pending"
    /\ waiter.hash \in DOMAIN payments
    /\ payments[waiter.hash].status = "Pending"

\* C25: prepare_payment_with_route_hint(target) looks at the first channel of
\* list_channels() whose counterparty is target.  It fails when there is none
\* and when that channel has no short channel id; otherwise it returns a hop
\* with that channel's short channel id.  In every case the pending-intents
\* map, the channel records and the payments stay as they were and the Store is
\* not called.
C25_RouteHintForOpenChannel ==
    \A target_node \in Traders, in \in HintInputs :
        LET r == prepare_payment_with_route_hint(NodeCtx, target_node, in)
            mine == {i \in 1..Len(in.channels) : in.channels[i].counterparty = target_node}
        IN  /\ mine = {} => r.ret = Err("Couldn't find channel")
            /\ mine # {} =>
                  LET first == CHOOSE i \in mine : \A j \in mine : i <= j
                      scid == in.channels[first].short_channel_id
                  IN  /\ scid = None =>
                            r.ret = Err("Couldn't find short channel id for channel")
                      /\ scid # None =>
                            /\ r.ret.tag = "Ok"
                            /\ r.ret.val.short_channel_id = scid[1]
                            /\ r.ret.val.short_channel_id \notin Scids
            /\ r.c.fake_channel_payments = fake_channel_payments
            /\ r.c.channels = channels
            /\ r.c.payments = payments
            /\ \A i \in 1..Len(r.c.log) : r.c.log[i].fn = "list_channels"

\* one request is pending and one shadow channel is stored
C25_Witness ==
    /\ Cardinality(DOMAIN fake_channel_payments) = 1
    /\ DOMAIN channels = {"u2"}
    /\ \E s \in DOMAIN fake_channel_payments :
          fake_channel_payments[s].user_channel_id = "u2"

\* C26: for every variant of OrderType, OrderState, ContractSymbol and
\* Direction, from_sql of the text to_sql writes is that variant, and from_sql
\* of a text that is the form of no variant is an error.  For the table: a row
\* loads if and only if each column holds the form of a variant of its type,
\* the struct loaded from it is stored as that very row, and every struct loads
\* from the row it was inserted as.
C26_SqlRoundTrip ==
    /\ \A v \in DbOrderType : OrderType_from_sql(OrderType_to_sql(v)) = Ok(v)
    /\ \A v \in DbOrderState : OrderState_from_sql(OrderState_to_sql(v)) = Ok(v)
    /\ \A v \in DbContractSymbol :
          ContractSymbol_from_sql(ContractSymbol_to_sql(v)) = Ok(v)
    /\ \A v \in DbDirection : Direction_from_sql(Direction_to_sql(v)) = Ok(v)
    /\ \A text \in ForeignTexts :
          /\ OrderType_from_sql(text) = Unrecognized
          /\ OrderState_from_sql(text) = Unrecognized
          /\ ContractSymbol_from_sql(text) = Unrecognized
          /\ Direction_from_sql(text) = Unrecognized
    /\ \A s \in SampleStructs : load(insert_into(s)) = Ok(s)
    /\ \A id \in DOMAIN customstruct :
          LET row == customstruct[id]
              l == load(row)
          IN  IF \E s \in SampleStructs : insert_into(s) = row
              THEN l.tag = "Ok" /\ l.val \in SampleStructs /\ insert_into(l.val) = row
              ELSE l = Unrecognized
    /\ loaded # None => loaded[1] = Unrecognized \/
                        (loaded[1].tag = "Ok" /\ loaded[1].val \in SampleStructs)

\* the struct of the round-trip test was inserted and loaded
C26_Witness ==
    /\ "1" \in DOMAIN customstruct
    /\ customstruct["1"] =
          [order_type |-> "limit", order_state |-> "filled",
           contract_symbol |-> "BtcUsd", direction |-> "Short"]
    /\ loaded = Some(Ok(SampleStruct(Variant("OrderType", "Limit"),
                                     Variant("OrderState", "Filled"),
                                     Variant("ContractSymbol", "BtcUsd"),
                                     Variant("Direction", "Short"))))

\* submissions to the payment layer among the calls of a run
Submissions(log) ==
    {i \in 1..Len(log) : log[i].fn \in {"pay_invoice", "pay_zero_value_invoice"}}

\* C27: a call of pay_invoice submits the payment to the payment layer at most
\* once: not at all when the amount is missing, else exactly once and as its
\* first call, through pay_invoice for an invoice with an amount and through
\* pay_zero_value_invoice otherwise, in both cases with a retry policy of 10
\* attempts; whatever the payment layer answers, no second submission follows.
C27_SubmittedOnce ==
    \A invoice \in Invoices, amount \in Amounts, in \in PayInputs :
        LET r == pay_invoice(NodeCtx, invoice, amount, in)
            subs == Submissions(r.c.log)
        IN  IF ~Payable(invoice, amount) THEN subs = {}
            ELSE /\ subs = {1}
                 /\ r.c.log[1].id = invoice.payment_hash
                 /\ r.c.log[1].state.retry = 10
                 /\ r.c.log[1].state.amount_msats = AmtMsat(invoice, amount)
                 /\ r.c.log[1].fn = IF invoice.amount_milli_satoshis = None
                                    THEN "pay_zero_value_invoice" ELSE "pay_invoice"
                 /\ Len(r.c.log) <= 2

\* a send failure has been recorded on the fixed-amount and on the zero-amount
\* path
C27_Witness ==
    /\ DOMAIN payments = PaymentHashes
    /\ \A h \in PaymentHashes : payments[h].status = "Failed"

\* C28: in prepare_onboarding_payment the mutex of the map is held for the
\* insert alone.  The thread holding it is the one call between lock() and the
\* end of the insert statement; the insert is the only call made under the
\* lock and it drops the guard; a call that has inserted and is about to
\* persist the shadow channel does not hold the mutex, and persisting neither
\* takes nor needs it: unless another call is inside its insert, the mutex is
\* free for the HTLC interception while the channel record is written.
C28_LockOnlyAroundInsert ==
    /\ \/ map_lock = None
       \/ \E call \in onboarding : call.pc = "locked" /\ map_lock = Some(call.scid)
    /\ \A call \in onboarding :
          /\ call.pc = "locked" =>
                /\ map_lock = Some(call.scid)
                /\ LET c == prepare_onboarding_payment_insert(NodeCtx, call.request, call.scid)
                   IN  /\ c.map_lock = None
                       /\ FnsOf(c.log) = <<"fake_channel_payments.insert">>
                       /\ c.channels = channels
          /\ call.pc = "inserted" =>
                /\ map_lock # Some(call.scid)
                /\ \A ldk_config \in LdkConfigs, upsertOk \in BOOLEAN :
                      LET r == prepare_onboarding_payment_persist(
                                   NodeCtx, call.request, call.scid,
                                   OnboardingIn(call.scid, ldk_config, upsertOk))
                      IN  /\ r.c.map_lock = map_lock
                          /\ r.c.fake_channel_payments = fake_channel_payments
                          /\ FnsOf(r.c.log) = <<"upsert_channel">>
    /\ (/\ \E call \in onboarding : call.pc = "inserted"
        /\ \A call \in onboarding : call.pc # "locked") => map_lock = None
    /\ map_lock = None =>
          \A liquidity_request \in LiquidityRequests, in \in OnboardingInputs :
              LET r == prepare_onboarding_payment(NodeCtx, liquidity_request, in)
              IN  /\ r.c.map_lock = None
                  /\ FnsOf(r.c.log) = <<"get_intercept_scid", "fake_channel_payments.insert",
                                        "upsert_channel">>

\* one call is about to persist its channel record while the request of a call
\* that has returned is in the map, ready to be taken by the HTLC interception
C28_Witness ==
    /\ map_lock = None
    /\ \E call \in onboarding :
          /\ call.pc = "inserted"
          /\ call.scid \in DOMAIN fake_channel_payments
          /\ DOMAIN fake_channel_payments \ BusyScids # {}

\* fee pairs that one configuration holds
ConfiguredFees ==
    {[base_msat |-> cfg.forwarding_fee_base_msat,
      proportional_millionths |-> cfg.forwarding_fee_proportional_millionths] :
        cfg \in LdkConfigs}

\* C29: a hop built by prepare_onboarding_payment or by
\* prepare_payment_with_route_hint carries the base fee and the proportional
\* fee of one configuration: the read guard is held from before the first read
\* until the function returns, no update gets in between, and the fees a call
\* has read are those of the configuration in force.  Hops returned by separate
\* calls can carry the fees of different configurations.
C29_FeesFromOneSnapshot ==
    /\ issued \subseteq ConfiguredFees
    /\ \A fn \in HopBuilders :
          LET call == hop_build[fn]
          IN  /\ call.pc # "idle" <=> fn \in ldk_config_rw.readers
              /\ call.pc \in {"base", "fees"} =>
                    call.base_msat = ldk_config_rw.value.forwarding_fee_base_msat
              /\ call.pc = "fees" =>
                    /\ call.proportional_millionths =
                          ldk_config_rw.value.forwarding_fee_proportional_millionths
                    /\ RoutingFees(call) \in ConfiguredFees

\* two calls have returned hops with the fees of two configurations
C29_Witness ==
    /\ Cardinality(issued) = 2
    /\ \A fn \in HopBuilders : hop_build[fn].pc = "idle"

\* C30: submit_order hands an order to the coordinator only after insert_order
\* has stored it: every post_new_order of a run comes after a successful
\* insert_order of the same order.  When insert_order fails, submit_order
\* returns that error having called nothing else after the position check: the
\* order is not posted, no order state is written, nothing is published and the
\* orders and the position are as before.
C30_PersistBeforeTransmit ==
    \A id \in OrderIds \ DOMAIN orders, in \in SubmitInputs :
        LET r == submit_order(Ctx, NewOrder(id, clock), in)
            log == r.c.log
        IN  /\ \A i \in 1..Len(log) :
                  log[i].fn = "post_new_order" =>
                      \E j \in 1..(i - 1) :
                          /\ log[j].fn = "insert_order"
                          /\ log[j].id = log[i].id
                          /\ log[j].ok
            /\ (in.acceptable /\ ~in.insertOk) =>
                  /\ r.ret = Err("Failed to insert order")
                  /\ FnsOf(log) = <<"get_position_matching_order", "insert_order">>
                  /\ r.c.posted = posted
                  /\ r.c.orders = orders
                  /\ r.c.position = position

\* an earlier order is open and holds the position; there is room for a new
\* order, whose failed insert must leave all of this alone
C30_Witness ==
    /\ position = "Closing"
    /\ Cardinality(DOMAIN orders) = 1
    /\ posted = DOMAIN orders
    /\ \A id \in DOMAIN orders : orders[id].state = Open

\* C31: when prepare_onboarding_payment fails because upsert_channel fails, the
\* insert into the map is not taken back: the call returns the error and no
\* hop, the LiquidityRequest is registered under the scid the call was handed
\* (which was not a key before), the map's other entries and the channel
\* records are as before.
C31_InsertNotRolledBack ==
    map_lock = None =>
        \A liquidity_request \in LiquidityRequests, in \in OnboardingInputs :
            LET r == prepare_onboarding_payment(NodeCtx, liquidity_request, in)
            IN  ~in.upsertOk =>
                    /\ r.ret = Err("Failed to insert shadow JIT channel")
                    /\ in.scid \notin DOMAIN fake_channel_payments
                    /\ DOMAIN r.c.fake_channel_payments =
                          DOMAIN fake_channel_payments \cup {in.scid}
                    /\ r.c.fake_channel_payments[in.scid] = liquidity_request
                    /\ \A s \in DOMAIN fake_channel_payments :
                          r.c.fake_channel_payments[s] = fake_channel_payments[s]
                    /\ r.c.channels = channels
                    /\ r.c.payments = payments

\* a request is registered for which no shadow channel was ever stored
C31_Witness ==
    /\ channels = <<>>
    /\ DOMAIN fake_channel_payments = Scids

\* C32: check_open_orders stops at the first outdated order whose forced failure
\* returns an error and returns that error: the outdated orders before it in
\* the loaded list are Failed(TimedOut), that order is Failed(TimedOut) when only
\* the position reset failed and unchanged when the Store write failed, and the
\* orders after it keep their state, no call being made for them.  When loading
\* the open orders fails, the error is returned and no order and no position
\* state is changed.
C32_SweepStopsAtFirstError ==
    \A now \in Times :
        \A in \in SweepInputs(now) :
            LET r == check_open_orders(Ctx, now, in)
                stale == Outdated(now)
                bad == {id \in stale : ~(in.ws[id] /\ in.poss[id])}
            IN  /\ ~in.readOk =>
                      /\ r.ret = Err("Error when loading open orders")
                      /\ r.c.orders = orders
                      /\ r.c.position = position
                      /\ Len(r.c.log) = 1
                /\ (in.readOk /\ bad = {}) => r.ret.tag = "Ok"
                /\ (in.readOk /\ bad # {}) =>
                      LET first == CHOOSE id \in bad : \A other \in bad : id <= other
                      IN  /\ r.ret.tag = "Err"
                          /\ \A id \in DOMAIN orders :
                                r.c.orders[id].state =
                                    IF id \in stale /\ (id < first \/ (id = first /\ in.ws[id]))
                                    THEN Failed("TimedOut")
                                    ELSE orders[id].state
                          /\ \A i \in 1..Len(r.c.log) :
                                r.c.log[i].fn \in {"update_order_state", "publish"} =>
                                    r.c.log[i].id <= first

\* of two orders created at the same time one was forced to Failed(TimedOut)
\* and the other is still open and outdated: the sweep stopped between them
C32_Witness ==
    /\ DOMAIN orders = {1, 2}
    /\ orders[1].creation_timestamp = orders[2].creation_timestamp
    /\ orders[1].state = Failed("TimedOut")
    /\ 2 \in Outdated(clock)

\* C33: when no order is in state Filling, order_filled() and
\* order_failed(None, reason, cause) return an error after the one read of the
\* Store: no order state is written, nothing is published, the position is not
\* reset, and the orders and the position are as before.
C33_NothingBeingFilled ==
    InFilling = {} =>
        /\ \A in \in FilledInputs :
              LET r == order_filled(Ctx, in)
              IN  /\ r.ret.tag = "Err"
                  /\ FnsOf(r.c.log) = <<"maybe_get_order_in_filling">>
                  /\ r.c.orders = orders
                  /\ r.c.position = position
                  /\ r.c.posted = posted
        /\ \A reason \in CallerReasons, in \in FailedInputs(None) :
              LET r == order_failed(Ctx, None, reason, in)
              IN  /\ r.ret.tag = "Err"
                  /\ FnsOf(r.c.log) = <<"maybe_get_order_in_filling">>
                  /\ r.c.orders = orders
                  /\ r.c.position = position
                  /\ r.c.posted = posted

\* two orders are open, none is being filled, and the position is reserved
C33_Witness ==
    /\ position = "Closing"
    /\ DOMAIN orders = OrderIds
    /\ \A id \in DOMAIN orders : orders[id].state = Open

\* C34, as stated: with an overall timeout of one second or less,
\* wait_for_payment makes no read and does not return success.
C34_TimeoutWithinOneSecond ==
    (waiter.pc # "idle" /\ waiter.deadline <= 1) =>
        /\ waiter.reads = 0
        /\ waiter.ret # "Ok"

\* C34: wait_for_payment sleeps one second before its first read of the Store:
\* a call has read only after a completed sleep and one second; with a timeout
\* of less than one second it makes no read and does not return success,
\* whatever the Store holds; with a timeout of exactly one second the first
\* sleep and the timeout end together, and the call either times out without a
\* read or makes its one read, at one second, and succeeds only from it.
C34_FirstReadAfterOneSecond ==
    /\ waiter.reads >= 1 => waiter.sleeps >= 1 /\ waiter.elapsed >= 1
    /\ (waiter.pc # "idle" /\ waiter.deadline < 1) =>
          /\ waiter.reads = 0
          /\ waiter.ret # "Ok"
    /\ (waiter.pc # "idle" /\ waiter.deadline = 1) =>
          /\ waiter.reads <= 1
          /\ waiter.ret = "Ok" => waiter.reads = 1 /\ waiter.elapsed = 1
    /\ \A expected_status \in {"Succeeded", "Failed"}, hash \in PaymentHashes,
          timeout \in Timeouts :
          LET w == wait_for_payment_start(expected_status, hash, timeout)
          IN  w.pc = "sleeping" /\ w.reads = 0 /\ w.ret = "none"

\* a call with a timeout below one second has timed out without a read while
\* the Store holds the expected status under its hash
C34_Witness ==
    /\ waiter.pc = "done"
    /\ waiter.ret = "Elapsed"
    /\ waiter.deadline = 0
    /\ waiter.reads = 0
    /\ waiter.hash \in DOMAIN payments
    /\ payments[waiter.hash].status = waiter.expected_status

\* index of the first channel of list whose counterparty is node_id, 0 if none
FirstChannelWith(list, node_id) ==
    LET mine == {i \in 1..Len(list) : list[i].counterparty = node_id}
    IN  IF mine = {} THEN 0 ELSE CHOOSE i \in mine : \A j \in mine : i <= j

\* C35: prepare_payment_with_route_hint(target) decides on the first channel
\* of list_channels() whose counterparty is target and on nothing after it:
\* when that channel has no short channel id the call fails with "Couldn't
\* find short channel id for channel", also when a later channel with target
\* has one; a hop it returns carries the first channel's short channel id; and
\* the result is the one for the list cut after that first channel.  The last
\* call made failed in this way if the first channel with its target had no
\* short channel id in the list it saw.
C35_FirstChannelOnly ==
    /\ \A target_node \in Traders :
          LET in == HintIn(list_channels, ldk_config_rw.value)
              r == prepare_payment_with_route_hint(NodeCtx, target_node, in)
              first == FirstChannelWith(list_channels, target_node)
              cut == HintIn(SubSeq(list_channels, 1, first), in.ldk_config)
          IN  first # 0 =>
                  /\ list_channels[first].short_channel_id = None =>
                        r.ret = Err("Couldn't find short channel id for channel")
                  /\ r.ret.tag = "Ok" =>
                        /\ list_channels[first].short_channel_id # None
                        /\ r.ret.val.short_channel_id =
                               list_channels[first].short_channel_id[1]
                  /\ r.ret = prepare_payment_with_route_hint(
                                 NodeCtx, target_node, cut).ret
    /\ route_hint # None =>
          LET first == FirstChannelWith(route_hint.channels, route_hint.target_node)
          IN  /\ first # 0
              /\ route_hint.channels[first].short_channel_id = None
              => route_hint.ret = Err("Couldn't find short channel id for channel")

\* the node has two channels with t1, the first without and the second with a
\* short channel id, and the call for t1 on these channels failed
C35_Witness ==
    /\ route_hint # None
    /\ route_hint.target_node = "t1"
    /\ route_hint.channels = list_channels
    /\ Len(list_channels) = 2
    /\ list_channels[1] = ChannelDetails("t1", None)
    /\ list_channels[2].counterparty = "t1"
    /\ list_channels[2].short_channel_id # None
    /\ route_hint.ret = Err("Couldn't find short channel id for channel")

\* C36: at any time now, set_expired_limit_orders_to_failed sets to Failed the
\* orders that are Open, of type Limit and with expiry before now, changes
\* nothing else of them and returns exactly these orders, as they are after
\* the update.  Every other order (Matched, Taken or Failed, of type Market,
\* or with expiry at or after now) stays as it is, no order is added or
\* removed, and the matches and the outbound messages are untouched.  When the
\* query fails nothing is changed.
C36_ExactlyExpiredLimitOrdersFail ==
    \A now \in NowUtc, ok \in BOOLEAN :
        LET r == set_expired_limit_orders_to_failed(CoordinatorCtx, now, ok)
            expired == {t \in DOMAIN coordinator_orders :
                           /\ coordinator_orders[t].order_state = "Open"
                           /\ coordinator_orders[t].order_type = "Limit"
                           /\ coordinator_orders[t].expiry < now}
        IN  /\ DOMAIN r.c.orders = DOMAIN coordinator_orders
            /\ r.c.matches = matches
            /\ r.c.notifier = notifier
            /\ ~ok => r.ret.tag = "Err" /\ r.c.orders = coordinator_orders
            /\ ok =>
                  /\ \A t \in expired :
                        r.c.orders[t] =
                            [coordinator_orders[t] EXCEPT !.order_state = "Failed"]
                  /\ \A t \in DOMAIN coordinator_orders :
                        \/ coordinator_orders[t].order_state \in {"Matched", "Taken", "Failed"}
                        \/ coordinator_orders[t].order_type = "Market"
                        \/ coordinator_orders[t].expiry >= now
                        => r.c.orders[t] = coordinator_orders[t]
                  /\ r.ret.tag = "Ok"
                  /\ r.ret.val = {r.c.orders[t] : t \in expired}
                  /\ \A order \in r.ret.val : order.order_state = "Failed"

\* the sweep has failed the limit order of t1 and left the market order of t2,
\* of the same expiry, open
C36_Witness ==
    /\ DOMAIN coordinator_orders = Traders
    /\ coordinator_orders["t1"].order_type = "Limit"
    /\ coordinator_orders["t1"].order_state = "Failed"
    /\ coordinator_orders["t2"].order_type = "Market"
    /\ coordinator_orders["t2"].order_state = "Open"
    /\ coordinator_orders["t2"].expiry = coordinator_orders["t1"].expiry

====
